---- MODULE Spec2Model ----
(***************************************************************************)
(* MoonLight Energy Solutions: the solar-sensor data pipeline              *)
(* (scripts/data_load.py, scripts/transform.py, scripts/stats.py,          *)
(* scripts/scoring.py, scripts/qa.py, app/utils.py) as a state machine     *)
(* over in-memory datasets.                                                *)
(*                                                                         *)
(* A dataset (pandas DataFrame) is a record [cols, rows]: the set of its   *)
(* column names and the sequence of its rows, each row a function from     *)
(* the columns to cell values.  Timestamps are whole hours since the first *)
(* midnight of the data; NaT is the missing-timestamp marker.  Numeric     *)
(* cells are binary floating-point numbers, see below.                     *)
(***************************************************************************)
EXTENDS Integers, Sequences, FiniteSets, TLC

VARIABLES file, df, op, ret, loc

vars == <<file, df, op, ret, loc>>

(***************************************************************************)
(* Bounds of the model.                                                    *)
(***************************************************************************)
\* Largest number of rows of a CSV file given to the loader.
MaxRows == 4
\* Largest number of rows of a dataset given to the daily aggregation.
MaxAggRows == 3
\* Largest number of rows of a dataset given to the outlier detector, and
\* the largest number of calls made on one dataset.
MaxZRows == 3
MaxCalls == 2
\* Largest number of rows of a dataset given to the cleaning-impact test.
MaxCleanRows == 4
\* Significand width of the floating-point format (float64 has 53 bits).
Prec == 7
\* Number of fraction bits of the smallest positive number (float64: 1074).
Frac == 8

(***************************************************************************)
(* Floating point.  A finite number is [c |-> "fin", v |-> k] and stands   *)
(* for k / Scale; k has at most Prec significant bits.  Every arithmetic   *)
(* operation is the exact result rounded to the nearest representable      *)
(* number, ties to even (IEEE 754), with division by zero giving an        *)
(* infinity or NaN as numpy does.  Overflow to infinity is not modelled:   *)
(* the exponent is unbounded above.                                        *)
(***************************************************************************)
RECURSIVE Pow2(_)
Pow2(n) == IF n = 0 THEN 1 ELSE 2 * Pow2(n - 1)

Scale == Pow2(Frac)

RECURSIVE BitLen(_)
BitLen(n) == IF n = 0 THEN 0 ELSE 1 + BitLen(n \div 2)

Abs(i) == IF i < 0 THEN -i ELSE i
Sign(i) == IF i < 0 THEN -1 ELSE 1

NaN == [c |-> "nan", v |-> 0]
PInf == [c |-> "inf", v |-> 1]
NInf == [c |-> "inf", v |-> -1]
Fin(k) == [c |-> "fin", v |-> k]
Infty(s) == IF s < 0 THEN NInf ELSE PInf

IsNaN(x) == x.c = "nan"
IsInf(x) == x.c = "inf"
\* np.isfinite
IsFinite(x) == x.c = "fin"

\* num/den (den > 0, in units of 1/Scale) rounded to Prec significant bits,
\* ties to even.
RoundQ(num, den) ==
  LET a == Abs(num)
      e == IF BitLen(a \div den) > Prec THEN BitLen(a \div den) - Prec ELSE 0
      q == Pow2(e) * den
      m == a \div q
      r == a - m * q
      up == (2 * r > q) \/ (2 * r = q /\ m % 2 = 1)
  IN  Sign(num) * (IF up THEN m + 1 ELSE m) * Pow2(e)

\* The float nearest to the integer n (a literal of the program).
F(n) == Fin(RoundQ(n * Scale, 1))
\* The float nearest to the decimal fraction n/d (d > 0).
FQ(n, d) == Fin(RoundQ(n * Scale, d))

FNeg(x) == IF IsNaN(x) THEN NaN ELSE [c |-> x.c, v |-> -x.v]
FAbs(x) == IF IsNaN(x) THEN NaN ELSE [c |-> x.c, v |-> Abs(x.v)]

FAdd(x, y) ==
  IF IsNaN(x) \/ IsNaN(y) THEN NaN
  ELSE IF IsInf(x) /\ IsInf(y) THEN (IF x.v = y.v THEN x ELSE NaN)
  ELSE IF IsInf(x) THEN x
  ELSE IF IsInf(y) THEN y
  ELSE Fin(RoundQ(x.v + y.v, 1))

FSub(x, y) == FAdd(x, FNeg(y))

FMul(x, y) ==
  IF IsNaN(x) \/ IsNaN(y) THEN NaN
  ELSE IF IsInf(x) \/ IsInf(y)
       THEN (IF x.v = 0 \/ y.v = 0 THEN NaN ELSE Infty(Sign(x.v) * Sign(y.v)))
  ELSE Fin(RoundQ(x.v * y.v, Scale))

FDiv(x, y) ==
  IF IsNaN(x) \/ IsNaN(y) THEN NaN
  ELSE IF IsInf(x) THEN (IF IsInf(y) THEN NaN ELSE Infty(Sign(x.v) * Sign(y.v)))
  ELSE IF IsInf(y) THEN Fin(0)
  ELSE IF y.v = 0 THEN (IF x.v = 0 THEN NaN ELSE Infty(Sign(x.v)))
  ELSE Fin(RoundQ(Sign(y.v) * x.v * Scale, Abs(y.v)))

RECURSIVE ISqrt(_)
\* The integer square root: the largest s with s * s <= n.
ISqrt(n) ==
  IF n < 2 THEN n
  ELSE LET s == 2 * ISqrt(n \div 4)
       IN  IF (s + 1) * (s + 1) <= n THEN s + 1 ELSE s

\* sqrt(k / Scale) in units of 1/Scale, rounded to Prec significant bits.
RoundSqrt(k) ==
  LET n == k * Scale
      s == ISqrt(n)
      e == IF BitLen(s) > Prec THEN BitLen(s) - Prec ELSE 0
      g == Pow2(e)
      m == s \div g
      \* sqrt(n) lies in [m*g, (m+1)*g); it is nearer (m+1)*g when
      \* 4n > ((2m+1)g)^2; a square root is never an exact tie.
      up == 4 * n > ((2 * m + 1) * g) * ((2 * m + 1) * g)
  IN  (IF up THEN m + 1 ELSE m) * g

FSqrt(x) ==
  IF IsNaN(x) THEN NaN
  ELSE IF x.v < 0 THEN NaN
  ELSE IF IsInf(x) THEN PInf
  ELSE Fin(RoundSqrt(x.v))

\* x > y on floats: every comparison with NaN is false.
FGt(x, y) ==
  IF IsNaN(x) \/ IsNaN(y) THEN FALSE
  ELSE IF IsInf(x) THEN x.v > 0 /\ ~(IsInf(y) /\ y.v > 0)
  ELSE IF IsInf(y) THEN y.v < 0
  ELSE x.v > y.v

\* x < y on floats.
FLt(x, y) == FGt(y, x)

RECURSIVE FSum(_)
\* numpy add.reduce of fewer than 8 numbers: left to right from the first.
FSum(s) ==
  IF Len(s) = 0 THEN Fin(0)
  ELSE IF Len(s) = 1 THEN s[1]
  ELSE FAdd(FSum(SubSeq(s, 1, Len(s) - 1)), s[Len(s)])

NotNaNSeq(s) == SelectSeq(s, LAMBDA x : ~IsNaN(x))

\* numpy.mean of a list of floats (no NaN skipping); empty gives NaN.
NpMean(s) == IF Len(s) = 0 THEN NaN ELSE FDiv(FSum(s), F(Len(s)))

\* Mutant: the mean of no values is 0.
SeriesMeanZero(s) ==
  IF Len(NotNaNSeq(s)) = 0 THEN Fin(0) ELSE NpMean(NotNaNSeq(s))

\* pandas Series.mean(): nanops.nanmean, the sum of the non-missing values
\* over their count; NaN when there is none.
SeriesMean(s) == NpMean(NotNaNSeq(s))

(***************************************************************************)
(* Datasets.                                                               *)
(***************************************************************************)
\* pandas NaT: the timestamp a value that failed to parse is coerced to.
NaT == -1

NoData == [cols |-> {}, rows |-> <<>>]
NoRet == [kind |-> "none"]
NoLoc == [fn |-> "none"]
NoOp == [name |-> "none", calls |-> 0]

\* The cells of column c, in row order.
Column(d, c) == [i \in 1..Len(d.rows) |-> d.rows[i][c]]

\* The rows of d at the positions idx (a sequence of row numbers).
Take(d, idx) == [cols |-> d.cols, rows |-> [i \in 1..Len(idx) |-> d.rows[idx[i]]]]

\* A row without column c, and the dataset d without column c.
Without(row, c) == [x \in (DOMAIN row) \ {c} |-> row[x]]
DropColumn(d, c) ==
  [cols |-> d.cols \ {c}, rows |-> [i \in 1..Len(d.rows) |-> Without(d.rows[i], c)]]

\* The increasing sequence of the members of a set of integers.
RECURSIVE SetToSeq(_)
SetToSeq(S) ==
  IF S = {} THEN <<>>
  ELSE LET m == CHOOSE x \in S : \A y \in S : x <= y
       IN  <<m>> \o SetToSeq(S \ {m})

(***************************************************************************)
(* scripts/data_load.py                                                    *)
(***************************************************************************)
\* A Timestamp cell of the CSV file is text: [form, hour] is the hour
\* written in the layout form.  TimestampFormat is the layout load_csv asks
\* for.
TimestampFormat == "%Y-%m-%d %H:%M"

\* pd.to_datetime(text, format=TimestampFormat, errors='coerce'): the
\* timestamp when the text has exactly that layout, NaT otherwise.
to_datetime(text) == IF text.form = TimestampFormat THEN text.hour ELSE NaT

\* Row order of sort_values("Timestamp"): position a of the input may come
\* before position b in the output.  Valid timestamps ascend; NaT rows come
\* last, in input order (nargsort, na_position='last').
\* Mutant: rows without a timestamp come first (na_position='first').
InOrderNaFirst(ts, a, b) ==
  IF ts[b] = NaT THEN ts[a] = NaT /\ a < b
  ELSE ts[a] = NaT \/ ts[a] <= ts[b]

\* Mutant: descending order.
InOrderDesc(ts, a, b) ==
  IF ts[a] = NaT THEN ts[b] = NaT /\ a < b
  ELSE ts[b] = NaT \/ ts[a] >= ts[b]

InOrder(ts, a, b) ==
  IF ts[a] = NaT THEN ts[b] = NaT /\ a < b
  ELSE ts[b] = NaT \/ ts[a] <= ts[b]

RECURSIVE ArgSorts(_, _)
\* The orders in which the positions S may follow one another: any position
\* that may come before all the others, then the rest.
ArgSorts(ts, S) ==
  IF S = {} THEN {<<>>}
  ELSE UNION {{<<a>> \o rest : rest \in ArgSorts(ts, S \ {a})} :
                a \in {x \in S : \A y \in S \ {x} : InOrder(ts, x, y)}}

\* The argsort results sort_values may produce: the default kind is
\* quicksort, which is not stable, so rows with equal timestamps come out
\* in any order.
SortPerms(ts) == ArgSorts(ts, 1..Len(ts))

\* df.sort_values("Timestamp").reset_index(drop=True): the possible results.
sort_values(d) ==
  {Take(d, [i \in 1..Len(d.rows) |-> p[i]]) : p \in SortPerms(Column(d, "Timestamp"))}

\* load_csv(path, parse_dates): f is the table read_csv returns.
load_csv(f, parse_dates) ==
  IF parse_dates /\ "Timestamp" \in f.cols
  THEN LET parsed == [cols |-> f.cols,
                      rows |-> [i \in 1..Len(f.rows) |->
                                  [f.rows[i] EXCEPT !["Timestamp"] = to_datetime(@)]]]
       IN  sort_values(parsed)
  ELSE {f}

\* The CSV files of the loader's checks: a Timestamp text and a GHI reading
\* per row, or no Timestamp column at all.
RawStamps ==
  {[form |-> TimestampFormat, hour |-> h] : h \in 0..1}
    \cup {[form |-> "%Y-%m-%d %H:%M:%S", hour |-> 1], [form |-> "", hour |-> 0]}

LoadVals == {F(0), F(1)}

InitLoad ==
  /\ \E n \in 0..MaxRows :
       \/ \E r \in [1..n -> [Timestamp : RawStamps, GHI : LoadVals]] :
            file = [cols |-> {"Timestamp", "GHI"}, rows |-> r]
       \/ \E r \in [1..n -> [GHI : LoadVals]] : file = [cols |-> {"GHI"}, rows |-> r]
  /\ df = NoData
  /\ op = NoOp
  /\ ret = NoRet
  /\ loc = NoLoc

\* df = load_csv(path, parse_dates)
LoadCsv ==
  /\ op.name = "none"
  /\ \E parse_dates \in BOOLEAN : \E d \in load_csv(file, parse_dates) :
       /\ op' = [name |-> "load_csv", parse_dates |-> parse_dates]
       /\ df' = d
       /\ ret' = [kind |-> "df", val |-> d]
  /\ UNCHANGED <<file, loc>>

NextLoad == LoadCsv

Spec == InitLoad /\ [][NextLoad]_vars

Loaded == op.name = "load_csv" /\ op.parse_dates /\ "Timestamp" \in df.cols

\* C1 (as stated): in the dataset load_csv returns with date parsing on,
\* every two consecutive rows have timestamps in non-decreasing order, for
\* every source file.  A comparison with NaT is false, as in pandas.
C1_Original ==
  Loaded =>
    \A i \in 1..(Len(df.rows) - 1) :
      /\ df.rows[i].Timestamp # NaT
      /\ df.rows[i + 1].Timestamp # NaT
      /\ df.rows[i].Timestamp <= df.rows[i + 1].Timestamp

\* C1 (amended): the rows of the loaded dataset whose timestamp parsed are in
\* non-decreasing timestamp order: of any two rows with a valid timestamp the
\* earlier one's timestamp is <= the later one's.
C1_SortedValid ==
  Loaded =>
    \A i \in 1..Len(df.rows) : \A j \in (i + 1)..Len(df.rows) :
      (df.rows[i].Timestamp # NaT /\ df.rows[j].Timestamp # NaT)
        => df.rows[i].Timestamp <= df.rows[j].Timestamp

\* C1 witness: a loaded file whose rows were out of order, with an
\* unparsable timestamp among them, came out with its valid rows reordered.
C1_Witness ==
  /\ Loaded
  /\ Len(df.rows) >= 3
  /\ \E i \in 1..Len(file.rows) : \E j \in (i + 1)..Len(file.rows) :
       /\ to_datetime(file.rows[i].Timestamp) # NaT
       /\ to_datetime(file.rows[j].Timestamp) # NaT
       /\ to_datetime(file.rows[i].Timestamp) > to_datetime(file.rows[j].Timestamp)
  /\ \E i \in 1..Len(df.rows) : df.rows[i].Timestamp = NaT

\* C22: in the dataset load_csv returns, rows with equal timestamps are in
\* their input order: the dataset is the one a stable sort of the parsed
\* rows by timestamp gives, rows without a timestamp last.
C22_StableOrder ==
  Loaded =>
    LET ts == [i \in 1..Len(file.rows) |-> to_datetime(file.rows[i].Timestamp)]
        stable == CHOOSE p \in SortPerms(ts) :
                    \A i \in 1..Len(p) : \A j \in (i + 1)..Len(p) :
                      ts[p[i]] = ts[p[j]] => p[i] < p[j]
    IN  /\ Len(df.rows) = Len(file.rows)
        /\ \A k \in 1..Len(df.rows) :
             /\ df.rows[k].Timestamp = ts[stable[k]]
             /\ df.rows[k].GHI = file.rows[stable[k]].GHI

\* The number of rows of the table d that equal the row r.
CountRows(d, r) == Cardinality({i \in 1..Len(d.rows) : d.rows[i] = r})

\* C27: a timestamp text that is not in the layout YYYY-MM-DD HH:MM does not
\* make load_csv fail: the call returns a dataset with as many rows as the
\* file, every row of the file is kept with its readings, its timestamp
\* parsed or, for another layout, the missing marker, and every row with
\* the missing marker comes after all rows with a valid timestamp.
C27_UnparsedKeptLast ==
  Loaded =>
    LET parsed == [cols |-> file.cols,
                   rows |-> [i \in 1..Len(file.rows) |->
                               [Timestamp |->
                                  IF file.rows[i].Timestamp.form = "%Y-%m-%d %H:%M"
                                  THEN file.rows[i].Timestamp.hour ELSE NaT,
                                GHI |-> file.rows[i].GHI]]]
    IN  /\ ret.kind = "df"
        /\ ret.val = df
        /\ Len(df.rows) = Len(file.rows)
        /\ \A i \in 1..Len(df.rows) : CountRows(df, df.rows[i]) = CountRows(parsed, df.rows[i])
        /\ \A i \in 1..Len(df.rows) : \A j \in (i + 1)..Len(df.rows) :
             df.rows[i].Timestamp = NaT => df.rows[j].Timestamp = NaT

\* C27 witness: a file whose first row has seconds in its timestamp and
\* whose second has none was loaded; both rows are at the end of the
\* dataset, after the two rows whose timestamps parsed.
C27_Witness ==
  /\ Loaded
  /\ Len(file.rows) = 4
  /\ file.rows[1].Timestamp.form = "%Y-%m-%d %H:%M:%S"
  /\ file.rows[2].Timestamp.form = ""
  /\ df.rows[1].Timestamp # NaT
  /\ df.rows[2].Timestamp # NaT
  /\ df.rows[3].Timestamp = NaT
  /\ df.rows[4].Timestamp = NaT
  /\ df.rows[3].GHI # df.rows[4].GHI

(***************************************************************************)
(* scripts/transform.py: add_daily_aggregates                              *)
(***************************************************************************)
\* A call that raised: KeyError names the missing column.
KeyError(c) == [kind |-> "KeyError", column |-> c]

\* Series.dt.date: the calendar day of a timestamp, NaT for NaT.
HoursPerDay == 24
DateOf(t) == IF t = NaT THEN NaT ELSE t \div HoursPerDay

\* The columns the aggregation averages, in the order of the agg dict.
AggColSeq == <<"GHI", "DNI", "DHI", "ModA", "ModB", "Tamb", "RH", "WS", "BP">>
AggCols == {AggColSeq[i] : i \in 1..Len(AggColSeq)}

\* df[name] = cells: the dataset with the column added or overwritten.
WithColumn(d, name, cells) ==
  [cols |-> d.cols \cup {name},
   rows |-> [i \in 1..Len(d.rows) |->
               [c \in d.cols \cup {name} |->
                  IF c = name THEN cells[i] ELSE d.rows[i][c]]]]

RECURSIVE KahanSum(_, _, _)
\* The compensated summation of libgroupby group_mean over the values s,
\* from the running sum sumx and the running compensation comp.
KahanSum(s, sumx, comp) ==
  IF Len(s) = 0 THEN sumx
  ELSE LET y == FSub(s[1], comp)
           t == FAdd(sumx, y)
           c == FSub(FSub(t, sumx), y)
       IN  KahanSum(Tail(s), t, IF IsNaN(c) THEN Fin(0) ELSE c)

\* Mutant: the sum is divided by the number of rows of the group, missing
\* values included.
GroupMeanAllRows(s) ==
  IF Len(NotNaNSeq(s)) = 0 THEN NaN
  ELSE FDiv(KahanSum(NotNaNSeq(s), Fin(0), Fin(0)), F(Len(s)))

\* groupby(...).agg('mean') of one column of one group: the compensated sum
\* of the non-missing values over their count, NaN when there is none.
GroupMean(s) ==
  IF Len(NotNaNSeq(s)) = 0 THEN NaN
  ELSE FDiv(KahanSum(NotNaNSeq(s), Fin(0), Fin(0)), F(Len(NotNaNSeq(s))))

\* The group keys of groupby('date'): the distinct dates, missing ones
\* dropped, in ascending order (sort=True, dropna=True).
GroupKeys(d) ==
  SetToSeq({d.rows[i]["date"] : i \in 1..Len(d.rows)} \ {NaT})

\* The cells of column c in the rows of d whose date is k, in row order.
GroupCells(d, c, k) ==
  LET idx == SetToSeq({i \in 1..Len(d.rows) : d.rows[i]["date"] = k})
  IN  [j \in 1..Len(idx) |-> d.rows[idx[j]][c]]

\* The first column of AggColSeq that d lacks, 0 when it has them all.
FirstMissing(d, cs) ==
  IF \A i \in 1..Len(cs) : cs[i] \in d.cols THEN 0
  ELSE CHOOSE i \in 1..Len(cs) :
         cs[i] \notin d.cols /\ \A j \in 1..(i - 1) : cs[j] \in d.cols

\* Mutant: the columns the dataset lacks are left out of the aggregation.
add_daily_aggregates_lenient(d) ==
  IF "Timestamp" \notin d.cols THEN [df |-> d, ret |-> KeyError("Timestamp")]
  ELSE
    LET dated == WithColumn(d, "date",
                            [i \in 1..Len(d.rows) |-> DateOf(d.rows[i]["Timestamp"])])
        keys == GroupKeys(dated)
        has == (AggCols \cap d.cols) \cup {"Date"}
    IN  [df |-> dated,
         ret |-> [kind |-> "df",
                  val |-> [cols |-> has,
                           rows |-> [k \in 1..Len(keys) |->
                                       [c \in has |->
                                          IF c = "Date" THEN keys[k]
                                          ELSE GroupMean(GroupCells(dated, c, keys[k]))]]]]]

\* add_daily_aggregates(df): [df, ret], the caller's dataset after the call
\* and what the call returned or raised.  Line 13 writes the 'date' column
\* into the caller's dataset before the aggregation can fail.
add_daily_aggregates(d) ==
  IF "Timestamp" \notin d.cols THEN [df |-> d, ret |-> KeyError("Timestamp")]
  ELSE
    LET dated == WithColumn(d, "date",
                            [i \in 1..Len(d.rows) |-> DateOf(d.rows[i]["Timestamp"])])
        miss == FirstMissing(dated, AggColSeq)
        keys == GroupKeys(dated)
        agg == [cols |-> AggCols \cup {"Date"},
                rows |-> [k \in 1..Len(keys) |->
                            [c \in AggCols \cup {"Date"} |->
                               IF c = "Date" THEN keys[k]
                               ELSE GroupMean(GroupCells(dated, c, keys[k]))]]]
    IN  IF miss # 0 THEN [df |-> dated, ret |-> KeyError(AggColSeq[miss])]
        ELSE [df |-> dated, ret |-> [kind |-> "df", val |-> agg]]

(***************************************************************************)
(* scripts/scoring.py: country_score                                       *)
(***************************************************************************)
ScoreColSeq == <<"GHI", "DNI", "DHI", "Tamb">>

\* weights=None
NoWeights == [none |-> TRUE]

\* The default weights: the floats nearest 0.4, 0.35, 0.15 and 0.10.
DefaultWeights ==
  [GHI |-> FQ(40, 100), DNI |-> FQ(35, 100), DHI |-> FQ(15, 100), Tamb |-> FQ(10, 100)]

\* temp_norm = (agg['avg_Tamb'] - 0) / 40.0
TempNorm(avg_Tamb) == FDiv(FSub(avg_Tamb, F(0)), F(40))

\* Mutant: the temperature term is added instead of subtracted.
ScoreAddTamb(w, agg) ==
  FAdd(FSub(FAdd(FMul(w.GHI, agg.avg_GHI), FMul(w.DNI, agg.avg_DNI)),
            FMul(w.DHI, agg.avg_DHI)),
       FMul(FMul(w.Tamb, TempNorm(agg.avg_Tamb)), F(1000)))

\* Mutant: the diffuse irradiance term is added instead of subtracted.
ScoreAddDHI(w, agg) ==
  FSub(FAdd(FAdd(FMul(w.GHI, agg.avg_GHI), FMul(w.DNI, agg.avg_DNI)),
            FMul(w.DHI, agg.avg_DHI)),
       FMul(FMul(w.Tamb, TempNorm(agg.avg_Tamb)), F(1000)))

\* score = (w['GHI']*avg_GHI + w['DNI']*avg_DNI - w['DHI']*avg_DHI
\*          - w['Tamb']*temp_norm*1000), evaluated left to right.
Score(w, agg) ==
  FSub(FSub(FAdd(FMul(w.GHI, agg.avg_GHI), FMul(w.DNI, agg.avg_DNI)),
            FMul(w.DHI, agg.avg_DHI)),
       FMul(FMul(w.Tamb, TempNorm(agg.avg_Tamb)), F(1000)))

\* country_score(df_daily, weights): what the call returns or raises.
country_score(d, weights) ==
  LET w == IF "none" \in DOMAIN weights THEN DefaultWeights ELSE weights
      miss == FirstMissing(d, ScoreColSeq)
      agg == [avg_GHI |-> SeriesMean(Column(d, "GHI")),
              avg_DNI |-> SeriesMean(Column(d, "DNI")),
              avg_DHI |-> SeriesMean(Column(d, "DHI")),
              avg_Tamb |-> SeriesMean(Column(d, "Tamb"))]
  IN  IF miss # 0 THEN KeyError(ScoreColSeq[miss])
      ELSE [kind |-> "score", agg |-> agg, score |-> Score(w, agg)]

(***************************************************************************)
(* Daily aggregation and scoring of bounded datasets.                      *)
(***************************************************************************)
ColIndex(c) == CHOOSE i \in 1..Len(AggColSeq) : AggColSeq[i] = c

\* The readings a row may carry: small whole numbers, a different one in
\* every column, a negative temperature, missing values.
AggReadings ==
  {[c \in AggCols |-> F(ColIndex(c))],
   [c \in AggCols |-> IF c = "Tamb" THEN F(-5) ELSE F(2 * ColIndex(c) + 1)],
   [c \in AggCols |-> IF c \in {"GHI", "Tamb"} THEN NaN ELSE F(0)]}

\* Timestamps on two calendar days, and the missing timestamp.
AggTimes == {1, 24, 25, NaT}

AggRows ==
  {[c \in AggCols \cup {"Timestamp"} |-> IF c = "Timestamp" THEN t ELSE m[c]] :
     t \in AggTimes, m \in AggReadings}

\* The weight configurations of the scorer's checks.
WeightConfigs ==
  {NoWeights,
   [GHI |-> F(1), DNI |-> F(2), DHI |-> F(3), Tamb |-> FQ(1, 2)]}

InitAgg ==
  /\ file = NoData
  /\ \E n \in 0..MaxAggRows : \E r \in [1..n -> AggRows] :
       \/ df = [cols |-> AggCols \cup {"Timestamp"}, rows |-> r]
       \/ n <= 1 /\ \E c \in AggCols \cup {"Timestamp"} :
            df = DropColumn([cols |-> AggCols \cup {"Timestamp"}, rows |-> r], c)
  /\ op = NoOp
  /\ ret = NoRet
  /\ loc = NoLoc

\* daily = add_daily_aggregates(df)
AddDailyAggregates ==
  /\ op.name = "none"
  /\ LET r == add_daily_aggregates(df)
     IN  /\ df' = r.df
         /\ ret' = r.ret
  /\ op' = [name |-> "add_daily_aggregates", given |-> df]
  /\ UNCHANGED <<file, loc>>

\* country_score(daily, weights) on the table the aggregation returned, or
\* country_score(df, weights) on the dataset itself
CountryScore ==
  /\ op.name = "add_daily_aggregates"
  /\ \E d \in {df} \cup (IF ret.kind = "df" THEN {ret.val} ELSE {}) :
       \E w \in WeightConfigs :
         /\ op' = [name |-> "country_score", given |-> d, weights |-> w]
         /\ ret' = country_score(d, w)
  /\ UNCHANGED <<file, df, loc>>

NextAgg == AddDailyAggregates \/ CountryScore

SpecAgg == InitAgg /\ [][NextAgg]_vars

\* The cells of column c of the rows of d dated k, in row order.
ReadingsOn(d, c, k) ==
  LET sel == SelectSeq(d.rows, LAMBDA r : r["Timestamp"] # NaT
                                          /\ r["Timestamp"] \div HoursPerDay = k)
  IN  [j \in 1..Len(sel) |-> sel[j][c]]

Aggregated == op.name = "add_daily_aggregates" /\ ret.kind = "df"

\* C2: add_daily_aggregates returns exactly one row per distinct calendar
\* date among the input readings' timestamps, in ascending date order, and
\* every aggregated column of a row is the arithmetic mean of that column
\* over the input readings of that date (missing values skipped, NaN when
\* the date has none).
C2_DailyMeans ==
  Aggregated =>
    LET d == op.given
        out == ret.val
        dates == {d.rows[i]["Timestamp"] \div HoursPerDay :
                    i \in {j \in 1..Len(d.rows) : d.rows[j]["Timestamp"] # NaT}}
    IN  /\ {out.rows[i]["Date"] : i \in 1..Len(out.rows)} = dates
        /\ Len(out.rows) = Cardinality(dates)
        /\ \A i \in 1..Len(out.rows) : \A j \in (i + 1)..Len(out.rows) :
             out.rows[i]["Date"] < out.rows[j]["Date"]
        /\ \A i \in 1..Len(out.rows) : \A c \in AggCols :
             out.rows[i][c] = SeriesMean(ReadingsOn(d, c, out.rows[i]["Date"]))

\* C2 witness: readings of two dates given out of date order, one date with
\* several readings one of them missing, aggregated into two rows.
C2_Witness ==
  /\ Aggregated
  /\ Len(ret.val.rows) = 2
  /\ Len(op.given.rows) >= 3
  /\ op.given.rows[1]["Timestamp"] = 25
  /\ op.given.rows[2]["Timestamp"] = 1
  /\ \E i \in 1..Len(op.given.rows) :
       op.given.rows[i]["Timestamp"] = 24 /\ IsNaN(op.given.rows[i]["GHI"])
  /\ IsFinite(ret.val.rows[2]["GHI"])

Scored == op.name = "country_score" /\ ret.kind = "score"

\* C3: for every daily-aggregate table and weight configuration,
\* country_score returns the column means of GHI, DNI, DHI and Tamb and
\* score = w_GHI*mean_GHI + w_DNI*mean_DNI - w_DHI*mean_DHI
\*         - w_Tamb*(mean_Tamb/40)*1000, the default weights being
\* 0.40, 0.35, 0.15 and 0.10.
C3_ScoreFormula ==
  Scored =>
    LET d == op.given
        w == IF op.weights = NoWeights
             THEN [GHI |-> FQ(40, 100), DNI |-> FQ(35, 100),
                   DHI |-> FQ(15, 100), Tamb |-> FQ(10, 100)]
             ELSE op.weights
        mG == SeriesMean(Column(d, "GHI"))
        mN == SeriesMean(Column(d, "DNI"))
        mH == SeriesMean(Column(d, "DHI"))
        mT == SeriesMean(Column(d, "Tamb"))
    IN  /\ ret.agg = [avg_GHI |-> mG, avg_DNI |-> mN, avg_DHI |-> mH, avg_Tamb |-> mT]
        /\ ret.score =
             FSub(FSub(FAdd(FMul(w.GHI, mG), FMul(w.DNI, mN)), FMul(w.DHI, mH)),
                  FMul(FMul(w.Tamb, FDiv(mT, F(40))), F(1000)))

\* C3 witness: a two-day table scored with the default weights, the score
\* a finite number.
C3_Witness ==
  /\ Scored
  /\ op.weights = NoWeights
  /\ Len(op.given.rows) = 2
  /\ IsFinite(ret.score)
  /\ ret.score.v # 0
  /\ ret.agg.avg_DHI.v # 0

\* C24: on a daily table without rows that has the GHI, DNI, DHI and Tamb
\* columns, country_score returns, and each of the four means and the score
\* is NaN; it does not raise.
C24_EmptyIsNaN ==
  (/\ op.name = "country_score"
   /\ Len(op.given.rows) = 0
   /\ {"GHI", "DNI", "DHI", "Tamb"} \subseteq op.given.cols) =>
    /\ ret.kind = "score"
    /\ IsNaN(ret.agg.avg_GHI)
    /\ IsNaN(ret.agg.avg_DNI)
    /\ IsNaN(ret.agg.avg_DHI)
    /\ IsNaN(ret.agg.avg_Tamb)
    /\ IsNaN(ret.score)

\* C24 witness: the aggregation of readings none of which has a timestamp
\* returned a table without rows, and that table was scored.
C24_Witness ==
  /\ op.name = "country_score"
  /\ Len(df.rows) = 2
  /\ op.given # df
  /\ Len(op.given.rows) = 0
  /\ ret.kind = "score"
  /\ IsNaN(ret.score)

\* C25: add_daily_aggregates raises KeyError and returns no table whenever
\* the dataset lacks one of GHI, DNI, DHI, ModA, ModB, Tamb, RH, WS, BP, and
\* country_score raises KeyError and returns no score whenever the table
\* lacks one of GHI, DNI, DHI, Tamb.
C25_MissingColumn ==
  /\ (/\ op.name = "add_daily_aggregates"
      /\ ~({"GHI", "DNI", "DHI", "ModA", "ModB", "Tamb", "RH", "WS", "BP"}
             \subseteq op.given.cols))
       => ret.kind = "KeyError"
  /\ (/\ op.name = "country_score"
      /\ ~({"GHI", "DNI", "DHI", "Tamb"} \subseteq op.given.cols))
       => ret.kind = "KeyError"

\* C25 witness: a dataset without the DNI column, on which the aggregation
\* had failed, was scored, and the scorer failed naming that column.
C25_Witness ==
  /\ op.name = "country_score"
  /\ op.given = df
  /\ "date" \in df.cols
  /\ "DNI" \notin df.cols
  /\ Len(df.rows) = 1
  /\ ret = KeyError("DNI")

(***************************************************************************)
(* scripts/stats.py: compute_zscore, flag_outliers_z                       *)
(***************************************************************************)
\* pandas Series.std(ddof=0): the square root of nanops.nanvar, which is
\* the mean of the squared deviations from the mean of the non-missing
\* values; NaN when there is none.
\* Mutant: the sample standard deviation (divisor N - 1), ddof=1.
SeriesStd1(s) ==
  LET x == NotNaNSeq(s)
      avg == FDiv(FSum(x), F(Len(x)))
      sqr == [i \in 1..Len(x) |-> FMul(FSub(avg, x[i]), FSub(avg, x[i]))]
  IN  IF Len(x) = 0 THEN NaN ELSE FSqrt(FDiv(FSum(sqr), F(Len(x) - 1)))

SeriesStd0(s) ==
  LET x == NotNaNSeq(s)
      avg == FDiv(FSum(x), F(Len(x)))
      sqr == [i \in 1..Len(x) |-> FMul(FSub(avg, x[i]), FSub(avg, x[i]))]
  IN  IF Len(x) = 0 THEN NaN ELSE FSqrt(FDiv(FSum(sqr), F(Len(x))))

\* compute_zscore(series) = (series - series.mean()) / series.std(ddof=0)
compute_zscore(s) ==
  [i \in 1..Len(s) |-> FDiv(FSub(s[i], SeriesMean(s)), SeriesStd0(s))]

\* The names f'{col}_z' and f'{col}_outlier'.
ZName(col) ==
  [GHI |-> "GHI_z", DNI |-> "DNI_z", DHI |-> "DHI_z", ModA |-> "ModA_z",
   ModB |-> "ModB_z", WS |-> "WS_z", WSgust |-> "WSgust_z", Tamb |-> "Tamb_z"][col]
OutlierName(col) ==
  [GHI |-> "GHI_outlier", DNI |-> "DNI_outlier", DHI |-> "DHI_outlier",
   ModA |-> "ModA_outlier", ModB |-> "ModB_outlier", WS |-> "WS_outlier",
   WSgust |-> "WSgust_outlier", Tamb |-> "Tamb_outlier"][col]

\* Mutant: a value is flagged when its score is below the threshold.
IsOutlierBelow(z, threshold) == FLt(FAbs(z), threshold)

\* z.abs() > threshold
IsOutlier(z, threshold) == FGt(FAbs(z), threshold)

\* The threshold parameter: threshold=3.0 when the caller passes none.
DefaultThreshold == F(3)
NoThreshold == [none |-> TRUE]
ThresholdOf(threshold) == IF threshold = NoThreshold THEN DefaultThreshold ELSE threshold

\* flag_outliers_z(df, col, threshold): [df, ret].  The two columns are
\* written into the caller's dataset, and that same dataset is returned.
flag_outliers_z(d, col, threshold) ==
  IF col \notin d.cols THEN [df |-> d, ret |-> KeyError(col)]
  ELSE LET z == compute_zscore(Column(d, col))
           withz == WithColumn(d, ZName(col), z)
           flagged == WithColumn(withz, OutlierName(col),
                                 [i \in 1..Len(z) |->
                                    IsOutlier(z[i], ThresholdOf(threshold))])
       IN  [df |-> flagged, ret |-> [kind |-> "self"]]

\* The readings of the outlier checks: whole numbers, a missing value, and
\* 11.25, three of which do not sum exactly (as three 0.1 do not in
\* float64).
ZVals == {F(1), F(2), F(7), FQ(45, 4), NaN}

Thresholds == {FQ(1, 2), F(1), F(3)}

InitZ ==
  /\ file = NoData
  /\ \E n \in 0..MaxZRows : \E r \in [1..n -> [GHI : ZVals]] :
       df = [cols |-> {"GHI"}, rows |-> r]
  /\ op = NoOp
  /\ ret = NoRet
  /\ loc = NoLoc

\* flag_outliers_z(df, col, threshold), called on the same dataset again
\* and again.
FlagOutliersZ ==
  /\ op.name \in {"none", "flag_outliers_z"}
  /\ op.calls < MaxCalls
  /\ \E col \in {"GHI", "ModA"} : \E threshold \in Thresholds \cup {NoThreshold} :
       LET r == flag_outliers_z(df, col, threshold)
       IN  /\ df' = r.df
           /\ ret' = r.ret
           /\ op' = [name |-> "flag_outliers_z", col |-> col,
                     threshold |-> ThresholdOf(threshold), passed |-> threshold,
                     given |-> df, calls |-> op.calls + 1]
  /\ UNCHANGED <<file, loc>>

NextZ == FlagOutliersZ

SpecZ == InitZ /\ [][NextZ]_vars

Flagged == op.name = "flag_outliers_z" /\ ret.kind = "self"

\* The column the last call scored, as it was given, and the flags the call
\* wrote.
ZInput == Column(op.given, op.col)
ZScores == Column(df, ZName(op.col))
ZFlags == Column(df, OutlierName(op.col))

\* C9: flagging is monotone in the threshold: when flag_outliers_z is called
\* on a dataset and column with threshold t1 and then with a threshold
\* t2 > t1, every value flagged at t2 was flagged at t1 (so the count of
\* outliers at t1 is at least the count at t2); and conversely for t2 < t1.
C9_Monotone ==
  [][(/\ Flagged
      /\ Flagged'
      /\ op'.col = op.col)
     => /\ FLt(op.threshold, op'.threshold)
           => \A i \in 1..Len(df.rows) :
                df'.rows[i][OutlierName(op.col)] => df.rows[i][OutlierName(op.col)]
        /\ FLt(op'.threshold, op.threshold)
           => \A i \in 1..Len(df.rows) :
                df.rows[i][OutlierName(op.col)] => df'.rows[i][OutlierName(op.col)]]_vars

\* C9 witness: a second call with a higher threshold flagged strictly fewer
\* values than the value flagged before, on a column with a flagged value.
C9_Witness ==
  /\ Flagged
  /\ op.calls = 2
  /\ op.col \in op.given.cols
  /\ OutlierName(op.col) \in op.given.cols
  /\ \E i \in 1..Len(df.rows) :
       op.given.rows[i][OutlierName(op.col)] /\ ~df.rows[i][OutlierName(op.col)]
  /\ \E i \in 1..Len(df.rows) : df.rows[i][OutlierName(op.col)]

\* C10: for any column of constant values (one value included) every
\* z-score of compute_zscore is NaN and flag_outliers_z flags no value; and
\* a value whose z-score is NaN is never flagged, whatever the threshold.
C10_ConstantUndefined ==
  Flagged =>
    /\ (/\ Len(ZInput) >= 1
        /\ \A i \in 1..Len(ZInput) : IsFinite(ZInput[i]) /\ ZInput[i] = ZInput[1])
         => \A i \in 1..Len(ZInput) : IsNaN(ZScores[i]) /\ ~ZFlags[i]
    /\ \A i \in 1..Len(ZInput) : IsNaN(ZScores[i]) => ~ZFlags[i]

\* The population standard deviation of the non-missing values x around
\* their mean m: the square root of the sum of squared deviations over N.
PopulationStd(x, m) ==
  FSqrt(FDiv(FSum([i \in 1..Len(x) |-> FMul(FSub(m, x[i]), FSub(m, x[i]))]),
             F(Len(x))))

\* C11: compute_zscore gives each value the population standard score
\* (value - mean) / standard deviation, the deviation with divisor N and
\* both taken over the non-missing values of the column; flag_outliers_z
\* flags a value exactly when the absolute score is strictly above the
\* threshold (a score equal to the threshold is not flagged), and the
\* threshold is 3.0 when the caller gives none.
C11_StandardScore ==
  Flagged =>
    LET x == NotNaNSeq(ZInput)
        m == FDiv(FSum(x), F(Len(x)))
        sd == PopulationStd(x, m)
        t == IF op.passed = NoThreshold THEN F(3) ELSE op.passed
    IN  \A i \in 1..Len(ZInput) :
          /\ Len(x) > 0 => ZScores[i] = FDiv(FSub(ZInput[i], m), sd)
          /\ Len(x) = 0 => IsNaN(ZScores[i])
          /\ ZFlags[i] <=> (~IsNaN(ZScores[i]) /\ FGt(FAbs(ZScores[i]), t))
          /\ ZScores[i] = t => ~ZFlags[i]

\* C11 witness: a second call on a column with a missing value, a value
\* whose score equals the threshold (not flagged) and a negative score.
C11_Witness ==
  /\ Flagged
  /\ op.calls = 2
  /\ op.given.rows # <<>>
  /\ \E i \in 1..Len(ZInput) : IsNaN(ZInput[i])
  /\ \E i \in 1..Len(ZInput) : ZScores[i] = op.threshold /\ ~ZFlags[i]
  /\ \E i \in 1..Len(ZInput) : IsFinite(ZScores[i]) /\ ZScores[i].v < 0

\* C12: the outlier detector reads the dataset only: a call of
\* flag_outliers_z leaves the caller's dataset with the columns and values
\* it had before the call, and the flags a call returned are not changed
\* by a later call on the same dataset with another threshold.  The dataset
\* a call returned is the caller's own (ret.kind = "self"), so its flags
\* are the flags of df.
C12_ReadOnly ==
  [][(op'.name = "flag_outliers_z" /\ op'.calls = op.calls + 1)
     => /\ df' = df
        /\ (Flagged /\ Flagged' /\ op'.col = op.col)
             => Column(df', OutlierName(op.col)) = Column(df, OutlierName(op.col))]_vars

(***************************************************************************)
(* scripts/stats.py: cleaning_impact_test                                  *)
(***************************************************************************)
\* t - pd.Timedelta(hours=h) and t + pd.Timedelta(hours=h): NaT stays NaT.
MinusHours(t, h) == IF t = NaT THEN NaT ELSE t - h
PlusHours(t, h) == IF t = NaT THEN NaT ELSE t + h

\* Comparisons of timestamps: any comparison with NaT is false.
TsGe(a, b) == a # NaT /\ b # NaT /\ a >= b
TsGt(a, b) == a # NaT /\ b # NaT /\ a > b
TsLe(a, b) == a # NaT /\ b # NaT /\ a <= b
TsLt(a, b) == a # NaT /\ b # NaT /\ a < b

\* Mutant: the reading at the event time itself counts as "before".
InPreWindowClosed(ts, t, hours) == TsGe(ts, MinusHours(t, hours)) /\ TsLe(ts, t)

\* (df['Timestamp'] >= pre_start) & (df['Timestamp'] < t)
InPreWindow(ts, t, hours) == TsGe(ts, MinusHours(t, hours)) /\ TsLt(ts, t)

\* (df['Timestamp'] > t) & (df['Timestamp'] <= post_end)
InPostWindow(ts, t, hours) == TsGt(ts, t) /\ TsLe(ts, PlusHours(t, hours))

\* df[mask][metric].mean() for the rows of d that a window around t holds.
PreMean(d, metric, t, hours) ==
  LET sel == SelectSeq(d.rows, LAMBDA r : InPreWindow(r["Timestamp"], t, hours))
  IN  SeriesMean([i \in 1..Len(sel) |-> sel[i][metric]])

PostMean(d, metric, t, hours) ==
  LET sel == SelectSeq(d.rows, LAMBDA r : InPostWindow(r["Timestamp"], t, hours))
  IN  SeriesMean([i \in 1..Len(sel) |-> sel[i][metric]])

\* df[df['Cleaning']==1]['Timestamp'].tolist()
Events(d) ==
  LET sel == SelectSeq(d.rows, LAMBDA r : r["Cleaning"] = F(1))
  IN  [i \in 1..Len(sel) |-> sel[i]["Timestamp"]]

\* The loop of lines 25-32: the events whose two window means are finite,
\* as the list of [pre, post] pairs in event order.
RECURSIVE Pairs(_, _, _, _, _)
Pairs(d, metric, events, pre_h, post_h) ==
  IF Len(events) = 0 THEN <<>>
  ELSE LET pre == PreMean(d, metric, events[1], pre_h)
           post == PostMean(d, metric, events[1], post_h)
           rest == Pairs(d, metric, Tail(events), pre_h, post_h)
       IN  IF IsFinite(pre) /\ IsFinite(post)
           THEN <<[pre |-> pre, post |-> post]>> \o rest
           ELSE rest

\* numpy.var(d, ddof=1) of n >= 2 numbers.
Var1(d) ==
  LET m == NpMean(d)
      sqr == [i \in 1..Len(d) |-> FMul(FSub(d[i], m), FSub(d[i], m))]
  IN  FDiv(FSum(sqr), F(Len(d) - 1))

\* Mutant: the one-sample statistic of a against the mean of b, whose
\* spread is that of a alone.
TStatOneSample(a, b) ==
  FDiv(FSub(NpMean(a), NpMean(b)), FSqrt(FDiv(Var1(a), F(Len(a)))))

\* scipy.stats.ttest_rel(a, b): the statistic mean(d) / sqrt(var(d) / n) of
\* the differences d = a - b, computed without raising on a zero variance.
TStat(a, b) ==
  LET d == [i \in 1..Len(a) |-> FSub(a[i], b[i])]
  IN  FDiv(NpMean(d), FSqrt(FDiv(Var1(d), F(Len(d)))))

\* The two-sided p-value of the statistic t, known here up to its class:
\* NaN for NaN, 0 for an infinite t, else a number in (0, 1].
PValue(t) ==
  IF IsNaN(t) THEN [c |-> "nan", v |-> "nan"]
  ELSE IF IsInf(t) THEN [c |-> "fin", v |-> "0"]
  ELSE [c |-> "fin", v |-> "(0,1]"]

Message == "Not enough paired events for a t-test"

\* Mutant: one usable pair is taken to be enough for the test.
EnoughPairsOne(n) == ~(n < 1)

\* not (len(pre_vals) < 2)
EnoughPairs(n) == ~(n < 2)

\* Mutant: the difference of the means is taken the other way round.
MeanDiffReversed(pre_vals, post_vals) == FSub(NpMean(pre_vals), NpMean(post_vals))

\* np.mean(post_vals) - np.mean(pre_vals)
MeanDiff(pre_vals, post_vals) == FSub(NpMean(post_vals), NpMean(pre_vals))

\* Lines 23-38, on the sorted copy s: [ret, loc], what the call returns or
\* raises and its lists pre_vals and post_vals at that point.
CleaningImpactOf(s, metric, pre_h, post_h) ==
  IF "Cleaning" \notin s.cols
  THEN [ret |-> KeyError("Cleaning"), loc |-> [fn |-> "cleaning_impact_test"]]
  ELSE IF Len(Events(s)) > 0 /\ metric \notin s.cols
  THEN [ret |-> KeyError(metric), loc |-> [fn |-> "cleaning_impact_test"]]
  ELSE
    LET pairs == Pairs(s, metric, Events(s), pre_h, post_h)
        pre_vals == [i \in 1..Len(pairs) |-> pairs[i].pre]
        post_vals == [i \in 1..Len(pairs) |-> pairs[i].post]
        t_stat == TStat(post_vals, pre_vals)
        locals == [fn |-> "cleaning_impact_test",
                   pre_vals |-> pre_vals, post_vals |-> post_vals]
    IN  IF ~EnoughPairs(Len(pre_vals))
        THEN [ret |-> [kind |-> "dict", n_events |-> Len(pre_vals), message |-> Message],
              loc |-> locals]
        ELSE [ret |-> [kind |-> "dict", n_events |-> Len(pre_vals),
                       t_stat |-> t_stat, p_value |-> PValue(t_stat),
                       mean_pre |-> NpMean(pre_vals), mean_post |-> NpMean(post_vals),
                       mean_diff |-> MeanDiff(pre_vals, post_vals)],
              loc |-> locals]

\* cleaning_impact_test(df, metric, pre_window_hours, post_window_hours):
\* the possible outcomes [ret, loc].  The function works on a sorted copy
\* and leaves the caller's dataset alone.
cleaning_impact_test(d, metric, pre_h, post_h) ==
  IF "Timestamp" \notin d.cols
  THEN {[ret |-> KeyError("Timestamp"), loc |-> [fn |-> "cleaning_impact_test"]]}
  ELSE {CleaningImpactOf(s, metric, pre_h, post_h) : s \in sort_values(d)}

(***************************************************************************)
(* The cleaning-impact test on bounded datasets.                           *)
(***************************************************************************)
\* The cleaning indicator and the metric of a row: a reading of 0 or 1 or
\* a missing reading without an event, a reading of 1 with an event.
CleanCells ==
  {[Cleaning |-> F(0), ModA |-> F(0)], [Cleaning |-> F(0), ModA |-> F(1)],
   [Cleaning |-> F(1), ModA |-> F(1)], [Cleaning |-> F(0), ModA |-> NaN]}

\* The timestamps of n rows as load_csv leaves them: in ascending order
\* from hour 0, readings on the hour, some hours missing or doubled.
CleanTimes(n) ==
  {t \in [1..n -> 0..3] : (n >= 1 => t[1] = 0) /\ \A i \in 1..(n - 1) : t[i] <= t[i + 1]}

CleanCols == {"Timestamp", "Cleaning", "ModA"}

\* The dataset of the rows with timestamps t and cells x.
CleanData(t, x) ==
  [cols |-> CleanCols,
   rows |-> [i \in 1..Len(t) |->
               [c \in CleanCols |-> IF c = "Timestamp" THEN t[i] ELSE x[i][c]]]]

\* The windows of the checks: one hour either side, and the default 24.
Windows == {<<1, 1>>, <<24, 24>>}

InitClean ==
  /\ file = NoData
  /\ \E n \in 0..MaxCleanRows : \E t \in CleanTimes(n) : \E x \in [1..n -> CleanCells] :
       \/ df = CleanData(t, x)
       \/ n <= 2 /\ \E c \in CleanCols : df = DropColumn(CleanData(t, x), c)
  /\ op = NoOp
  /\ ret = NoRet
  /\ loc = NoLoc

\* cleaning_impact_test(df, 'ModA', pre_window_hours, post_window_hours)
CleaningImpactTest ==
  /\ op.name = "none"
  /\ \E w \in Windows : \E r \in cleaning_impact_test(df, "ModA", w[1], w[2]) :
       /\ op' = [name |-> "cleaning_impact_test", given |-> df, metric |-> "ModA",
                 pre_h |-> w[1], post_h |-> w[2]]
       /\ ret' = r.ret
       /\ loc' = r.loc
  /\ UNCHANGED <<file, df>>

NextClean == CleaningImpactTest

SpecClean == InitClean /\ [][NextClean]_vars

\* The call ran to a result (it did not raise).
Returned == op.name = "cleaning_impact_test" /\ ret.kind = "dict"
\* The result is the full one.
FullResult == Returned /\ "t_stat" \in DOMAIN ret

\* What the claims say of the event at row i of the dataset s: the readings
\* of the metric before and after it, and whether it is a usable pair.
BeforeEvent(s, i) ==
  LET T == s.rows[i]["Timestamp"]
      in == {j \in 1..Len(s.rows) :
               /\ T # NaT
               /\ s.rows[j]["Timestamp"] # NaT
               /\ T - op.pre_h <= s.rows[j]["Timestamp"]
               /\ s.rows[j]["Timestamp"] < T}
      idx == SetToSeq(in)
  IN  [k \in 1..Len(idx) |-> s.rows[idx[k]][op.metric]]

AfterEvent(s, i) ==
  LET T == s.rows[i]["Timestamp"]
      in == {j \in 1..Len(s.rows) :
               /\ T # NaT
               /\ s.rows[j]["Timestamp"] # NaT
               /\ T < s.rows[j]["Timestamp"]
               /\ s.rows[j]["Timestamp"] <= T + op.post_h}
      idx == SetToSeq(in)
  IN  [k \in 1..Len(idx) |-> s.rows[idx[k]][op.metric]]

EventRows(s) == {i \in 1..Len(s.rows) : s.rows[i]["Cleaning"] = F(1)}

UsableRows(s) ==
  SetToSeq({i \in EventRows(s) :
              IsFinite(SeriesMean(BeforeEvent(s, i))) /\ IsFinite(SeriesMean(AfterEvent(s, i)))})

UsablePre(s) == [k \in 1..Len(UsableRows(s)) |-> SeriesMean(BeforeEvent(s, UsableRows(s)[k]))]
UsablePost(s) == [k \in 1..Len(UsableRows(s)) |-> SeriesMean(AfterEvent(s, UsableRows(s)[k]))]

\* C4: for every reading with the cleaning indicator set at time T the pre
\* value is the mean of the metric over the readings with
\* T - pre_window_hours <= timestamp < T and the post value the mean over
\* those with T < timestamp <= T + post_window_hours; the event is a usable
\* pair exactly when both means are finite, and n_events is the number of
\* usable pairs.
C4_Windows ==
  Returned =>
    /\ loc.pre_vals = UsablePre(op.given)
    /\ loc.post_vals = UsablePost(op.given)
    /\ ret.n_events = Len(UsableRows(op.given))

\* C4 witness: two events of which one is not usable, and another reading
\* at the very time of the usable one.
C4_Witness ==
  /\ Returned
  /\ op.pre_h = 24
  /\ Cardinality(EventRows(op.given)) = 2
  /\ ret.n_events = 1
  /\ \E i \in EventRows(op.given) : \E j \in 1..Len(op.given.rows) :
       /\ j # i
       /\ op.given.rows[j]["Timestamp"] = op.given.rows[i]["Timestamp"]
       /\ IsFinite(SeriesMean(BeforeEvent(op.given, i)))
       /\ IsFinite(SeriesMean(AfterEvent(op.given, i)))

HasCleanCols == {"Timestamp", "Cleaning", op.metric} \subseteq op.given.cols

\* C5: whenever fewer than 2 usable pairs remain, and so for any dataset
\* with 0 or 1 cleaning events, cleaning_impact_test returns a result that
\* carries only n_events, the number of usable pairs, and the
\* insufficient-data message: no t statistic, p-value, mean_pre, mean_post
\* or mean_diff.
C5_Insufficient ==
  (op.name = "cleaning_impact_test" /\ HasCleanCols) =>
    /\ Returned
    /\ Len(UsableRows(op.given)) < 2
         => ret = [kind |-> "dict", n_events |-> Len(UsableRows(op.given)),
                   message |-> Message]
    /\ Cardinality(EventRows(op.given)) <= 1
         => DOMAIN ret = {"kind", "n_events", "message"}

\* C5 witness: two cleaning events of which only one is a usable pair.
C5_Witness ==
  /\ Returned
  /\ Cardinality(EventRows(op.given)) = 2
  /\ ret.n_events = 1
  /\ "message" \in DOMAIN ret

\* The differences post - pre of the usable pairs.
UsableDiffs(s) ==
  [k \in 1..Len(UsableRows(s)) |-> FSub(UsablePost(s)[k], UsablePre(s)[k])]

AllEqual(q) == \A i \in 1..Len(q) : q[i] = q[1]

C7_Means ==
  FullResult =>
    /\ ret.mean_pre = NpMean(UsablePre(op.given))
    /\ ret.mean_post = NpMean(UsablePost(op.given))
    /\ ret.mean_diff = FSub(ret.mean_post, ret.mean_pre)

\* C7 witness: a full result whose mean_post differs from its mean_pre.
C7_Witness ==
  /\ FullResult
  /\ ret.n_events = 2
  /\ ret.mean_diff.v # 0
  /\ ret.mean_pre.v # 0

\* C8: cleaning_impact_test fails with a required-column-missing condition
\* whenever the dataset lacks the Timestamp column, the Cleaning column or
\* the metric column, also when the dataset holds no cleaning event.
C8_MissingColumnFails ==
  (op.name = "cleaning_impact_test" /\ ~HasCleanCols) => ret.kind = "KeyError"

(***************************************************************************)
(* scripts/qa.py                                                           *)
(***************************************************************************)
\* Python values that are not floats or timestamps: None, an int, a str.
None == [t |-> "NoneType"]
PyInt(n) == [t |-> "int", v |-> n]
Str(text) == [t |-> "str", v |-> text]

\* The dtype of column c: timestamps are datetime64[ns], text is object and
\* every reading is float64.
DType(c) ==
  IF c = "Timestamp" THEN "datetime64[ns]"
  ELSE IF c \in {"Comments", "date"} THEN "object"
  ELSE IF c \in {"GHI_outlier", "DNI_outlier", "DHI_outlier", "ModA_outlier",
                 "ModB_outlier", "WS_outlier", "WSgust_outlier", "Tamb_outlier",
                 "post_clean"} THEN "bool"
  ELSE "float64"

\* df.isnull() on a cell of column c: NaT, None and NaN are null.
isnull(c, x) ==
  IF c \in {"Timestamp", "date"} THEN x = NaT
  ELSE IF DType(c) = "object" THEN x = None
  ELSE IF DType(c) = "bool" THEN FALSE
  ELSE IsNaN(x)

\* Series.sum() of a boolean column: the number of its True cells.
CountTrue(b) == Cardinality({i \in 1..Len(b) : b[i]})

\* The sensors that must be >= 0.
non_negative_cols == {"GHI", "DNI", "DHI", "ModA", "ModB", "Precipitation", "WS", "WSgust"}

\* int((df[c] < 0).sum()) for a column of the dataset, None for one it does
\* not have.
\* Mutant: a listed column that the dataset lacks counts 0.
NegCountZero(d, c) ==
  IF c \in d.cols
  THEN PyInt(CountTrue([i \in 1..Len(d.rows) |-> FLt(d.rows[i][c], F(0))]))
  ELSE PyInt(0)

NegCount(d, c) ==
  IF c \in d.cols
  THEN PyInt(CountTrue([i \in 1..Len(d.rows) |-> FLt(d.rows[i][c], F(0))]))
  ELSE None

\* df.duplicated().sum(): the rows equal to an earlier row in every column
\* (missing values equal to each other).
DuplicateRows(d) ==
  Cardinality({i \in 1..Len(d.rows) : \E j \in 1..(i - 1) : d.rows[j] = d.rows[i]})

\* The report basic_quality_report builds.
QualityReport(d) ==
  [n_rows |-> Len(d.rows),
   n_cols |-> Cardinality(d.cols),
   missing_per_col |->
     [c \in d.cols |-> CountTrue([i \in 1..Len(d.rows) |-> isnull(c, d.rows[i][c])])],
   dtypes |-> [c \in d.cols |-> DType(c)],
   negative_counts |-> [c \in non_negative_cols |-> NegCount(d, c)],
   duplicate_rows |-> DuplicateRows(d)]

\* Series.notna() on a Timestamp cell.
\* Mutant: the rows without a timestamp are the ones kept.
notna_inverted(x) == x = NaT

notna(x) == x # NaT

\* drop_bad_timestamps(df): [df, ret].  The result is a new dataset when
\* there is a Timestamp column and the dataset given itself otherwise.
drop_bad_timestamps(d) ==
  IF "Timestamp" \in d.cols
  THEN [df |-> d,
        ret |-> [kind |-> "df",
                 val |-> [cols |-> d.cols,
                          rows |-> SelectSeq(d.rows, LAMBDA r : notna(r.Timestamp))]]]
  ELSE [df |-> d, ret |-> [kind |-> "self"]]

\* Mutant: the report is taken after dropping, in place, the rows without a
\* timestamp.
basic_quality_report_dropping(d) ==
  LET kept == IF "Timestamp" \in d.cols THEN drop_bad_timestamps(d).ret.val ELSE d
  IN  [df |-> kept, ret |-> [kind |-> "dict", val |-> QualityReport(kept)]]

\* basic_quality_report(df): [df, ret].  No statement of the function
\* assigns to the dataset.
basic_quality_report(d) ==
  [df |-> d, ret |-> [kind |-> "dict", val |-> QualityReport(d)]]

\* Largest number of rows of a dataset given to the quality functions.
MaxQARows == 3

\* The datasets of the quality checks.  Readings may be negative or missing,
\* timestamps and comments may be missing; some datasets have no Timestamp
\* column and some have none of the listed sensors.
QAStamps == {0, NaT}
QAGhi == {F(-1), F(1), NaN}
QATamb == {F(-1), NaN}
QAComments == {Str("Good"), None}

InitQA ==
  /\ file = NoData
  /\ \E n \in 0..MaxQARows :
       \/ \E r \in [1..n -> [Timestamp : QAStamps, GHI : QAGhi, Tamb : QATamb]] :
            df = [cols |-> {"Timestamp", "GHI", "Tamb"}, rows |-> r]
       \/ \E r \in [1..n -> [GHI : QAGhi, Comments : QAComments]] :
            df = [cols |-> {"GHI", "Comments"}, rows |-> r]
       \/ \E r \in [1..n -> [Timestamp : QAStamps, Tamb : QATamb]] :
            df = [cols |-> {"Timestamp", "Tamb"}, rows |-> r]
  /\ op = NoOp
  /\ ret = NoRet
  /\ loc = NoLoc

\* report = basic_quality_report(df), any number of times.
BasicQualityReport ==
  /\ op.name \in {"none", "basic_quality_report"}
  /\ op.calls < MaxCalls
  /\ LET r == basic_quality_report(df)
     IN  /\ df' = r.df
         /\ ret' = r.ret
         /\ op' = [name |-> "basic_quality_report", given |-> df, calls |-> op.calls + 1]
  /\ UNCHANGED <<file, loc>>

\* The dataset the last call returned.
RetData == IF ret.kind = "self" THEN df ELSE ret.val

\* clean = drop_bad_timestamps(df), and then clean = drop_bad_timestamps(clean).
\* op.after is the dataset that was given, as it is after the call.
DropBadTimestamps ==
  /\ op.name \in {"none", "drop_bad_timestamps"}
  /\ op.calls < MaxCalls
  /\ LET first == op.name = "none"
         given == IF first THEN df ELSE RetData
         r == drop_bad_timestamps(given)
     IN  /\ df' = IF first \/ ret.kind = "self" THEN r.df ELSE df
         /\ ret' = r.ret
         /\ op' = [name |-> "drop_bad_timestamps", given |-> given, after |-> r.df,
                   calls |-> op.calls + 1]
  /\ UNCHANGED <<file, loc>>

NextQA == BasicQualityReport \/ DropBadTimestamps

SpecQA == InitQA /\ [][NextQA]_vars

Reported == op.name = "basic_quality_report"

\* C13: basic_quality_report is a pure function of the dataset: a call
\* leaves the dataset's rows, columns and values as they were (no row is
\* dropped), and a second call on the unchanged dataset returns a report
\* equal to the first.
C13_Pure ==
  [][Reported'
     => /\ df' = df
        /\ Len(df'.rows) = Len(df.rows)
        /\ Reported => ret' = ret]_vars

\* C13 witness: a second report on a dataset that has rows without a
\* timestamp, missing and negative readings and a duplicate row.
C13_Witness ==
  /\ Reported
  /\ op.calls = 2
  /\ ret.val.n_rows = 3
  /\ "Timestamp" \in df.cols
  /\ ret.val.missing_per_col["Timestamp"] > 0
  /\ ret.val.duplicate_rows > 0
  /\ ret.val.negative_counts["GHI"] = PyInt(1)

\* The number of null entries of column c of the dataset, and the number
\* of its values below 0.
NullCount(c) ==
  Cardinality({i \in 1..Len(df.rows) :
                 IF c = "Timestamp" THEN df.rows[i][c] = NaT
                 ELSE IF c = "Comments" THEN df.rows[i][c] = None
                 ELSE df.rows[i][c].c = "nan"})
BelowZero(c) ==
  Cardinality({i \in 1..Len(df.rows) : df.rows[i][c].c # "nan" /\ df.rows[i][c].v < 0})

\* The counts of the report: n_rows and n_cols are the dataset's row and
\* column counts, missing_per_col has the exact number of null entries of
\* each column, and negative_counts has entries for listed sensors only,
\* the entry of a column of the dataset being the number of its values
\* below 0.
ReportCounts ==
  /\ ret.val.n_rows = Len(df.rows)
  /\ ret.val.n_cols = Cardinality(df.cols)
  /\ DOMAIN ret.val.missing_per_col = df.cols
  /\ \A c \in df.cols : ret.val.missing_per_col[c] = NullCount(c)
  /\ DOMAIN ret.val.negative_counts
       \subseteq {"GHI", "DNI", "DHI", "ModA", "ModB", "Precipitation", "WS", "WSgust"}
  /\ \A c \in DOMAIN ret.val.negative_counts :
       c \in df.cols
         => ret.val.negative_counts[c] = PyInt(BelowZero(c)) /\ BelowZero(c) >= 0

\* C19 (as stated): the counts of the report are exact, and a listed sensor
\* that the dataset does not have has a zero entry or no entry in
\* negative_counts.
C19_Original ==
  Reported =>
    /\ ReportCounts
    /\ \A c \in DOMAIN ret.val.negative_counts :
         c \notin df.cols => ret.val.negative_counts[c] = PyInt(0)

\* C19 (amended): the counts of the report are exact, negative_counts has
\* an entry for every listed sensor, and the entry of a listed sensor that
\* the dataset does not have is None: it carries no count.
C19_Counts ==
  Reported =>
    /\ ReportCounts
    /\ DOMAIN ret.val.negative_counts
         = {"GHI", "DNI", "DHI", "ModA", "ModB", "Precipitation", "WS", "WSgust"}
    /\ \A c \in DOMAIN ret.val.negative_counts :
         c \notin df.cols => ret.val.negative_counts[c] = None

\* C19 witness: a report on a dataset with a missing timestamp, a negative
\* and a missing GHI reading and a negative temperature, which is not
\* counted; the dataset has no DNI column.
C19_Witness ==
  /\ Reported
  /\ df.cols = {"Timestamp", "GHI", "Tamb"}
  /\ ret.val.n_rows = 3
  /\ ret.val.missing_per_col["Timestamp"] = 1
  /\ ret.val.missing_per_col["GHI"] = 1
  /\ ret.val.negative_counts["GHI"] = PyInt(1)
  /\ \E i \in 1..3 : df.rows[i]["Tamb"] = F(-1)
  /\ ret.val.negative_counts["DNI"] = None

Dropped == op.name = "drop_bad_timestamps"

\* C20: drop_bad_timestamps returns a copy holding exactly the rows whose
\* Timestamp is not missing, in their input order and with the values of
\* all columns kept, and leaves the dataset given unchanged; a dataset
\* without a Timestamp column is returned unchanged, without error; and
\* applying it to its own result gives the same rows again.
C20_DropsMissing ==
  Dropped =>
    LET kept == SetToSeq({i \in 1..Len(op.given.rows) :
                            op.given.rows[i]["Timestamp"] # NaT})
    IN  /\ op.after = op.given
        /\ "Timestamp" \in op.given.cols
             => /\ ret.kind = "df"
                /\ ret.val.cols = op.given.cols
                /\ Len(ret.val.rows) = Len(kept)
                /\ \A k \in 1..Len(kept) : ret.val.rows[k] = op.given.rows[kept[k]]
        /\ "Timestamp" \notin op.given.cols
             => ret.kind = "self" /\ df = op.given
        /\ op.calls = 2 => RetData.rows = op.given.rows

\* C20 witness: a second application, after the first dropped the middle
\* row of three and kept the other two.
C20_Witness ==
  /\ Dropped
  /\ op.calls = 2
  /\ Len(df.rows) = 3
  /\ df.rows[2]["Timestamp"] = NaT
  /\ Len(ret.val.rows) = 2
  /\ ret.val.rows[1] = df.rows[1]
  /\ ret.val.rows[2] = df.rows[3]
  /\ df.rows[1] # df.rows[3]

(***************************************************************************)
(* scripts/transform.py: fill_interpolate, add_post_clean_flag             *)
(***************************************************************************)
\* A call that raised an exception other than KeyError.
Raised(exception) == [kind |-> exception]

\* Series.ffill() and Series.bfill() of the column s whose missing cells
\* are those of the mask na: a missing cell takes the nearest present value
\* before it (after it), and stays missing when there is none.
Ffill(s, na) ==
  [i \in 1..Len(s) |->
     LET before == {j \in 1..i : ~na[j]}
     IN  IF before = {} THEN s[i]
         ELSE s[CHOOSE j \in before : \A k \in before : k <= j]]

Bfill(s, na) ==
  [i \in 1..Len(s) |->
     LET after == {j \in i..Len(s) : ~na[j]}
     IN  IF after = {} THEN s[i]
         ELSE s[CHOOSE j \in after : \A k \in after : j <= k]]

\* Series.isna() of a column of readings.
isna(y) == [i \in 1..Len(y) |-> IsNaN(y[i])]

\* np.interp(x, xp, fp) for ascending xp: the value of the piecewise linear
\* function through the points (xp, fp) at x, constant outside them.
np_interp(x, xp, fp) ==
  LET n == Len(xp)
  IN  IF x < xp[1] THEN fp[1]
      ELSE IF x > xp[n] THEN fp[n]
      ELSE LET j == CHOOSE k \in 1..n : xp[k] <= x /\ (k = n \/ x < xp[k + 1])
           IN  IF j = n \/ xp[j] = x THEN fp[j]
               ELSE LET slope == FDiv(FSub(fp[j + 1], fp[j]), FSub(F(xp[j + 1]), F(xp[j])))
                    IN  FAdd(FMul(slope, FSub(F(x), F(xp[j]))), fp[j])

\* Mutant: every cell of a column takes its first present value.
interpolate_flat(ts, y) ==
  LET valid == {i \in 1..Len(y) : ~IsNaN(y[i])}
      first == CHOOSE i \in valid : \A k \in valid : i <= k
  IN  IF valid = {} THEN {y} ELSE {[i \in 1..Len(y) |-> y[first]]}

\* Series.interpolate(method='time') of the column y over the index ts: the
\* results it may give.  The present values are sorted by time (argsort,
\* ties in any order) and every missing cell after the first present one is
\* interpolated at its own time; the missing cells before it are kept, and
\* so is a column without a present or without a missing value.
interpolate(ts, y) ==
  LET valid == {i \in 1..Len(y) : ~IsNaN(y[i])}
      first == CHOOSE i \in valid : \A k \in valid : i <= k
  IN  IF valid = {} \/ valid = 1..Len(y) THEN {y}
      ELSE {[i \in 1..Len(y) |->
               IF i \in valid THEN y[i]
               ELSE IF i < first THEN NaN
               ELSE np_interp(ts[i], [k \in 1..Len(p) |-> ts[p[k]]],
                              [k \in 1..Len(p) |-> y[p[k]]])] :
             p \in ArgSorts(ts, valid)}

\* .ffill().bfill() on an interpolated column.
\* Mutant: the column is filled forward only.
ffill_only(y) == Ffill(y, isna(y))

ffill_bfill(y) ==
  LET forward == Ffill(y, isna(y))
  IN  Bfill(forward, isna(forward))

\* df.select_dtypes(include='number').columns, of the dataset indexed by
\* Timestamp.
numeric_cols(d) == {c \in d.cols \ {"Timestamp"} : DType(c) = "float64"}

\* fill_interpolate(df): the possible [df, ret].  set_index copies, so the
\* caller's dataset is not written; a missing value in the index makes
\* interpolate raise NotImplementedError.
fill_interpolate(d) ==
  IF "Timestamp" \notin d.cols THEN {[df |-> d, ret |-> KeyError("Timestamp")]}
  ELSE IF \E i \in 1..Len(d.rows) : d.rows[i].Timestamp = NaT
  THEN {[df |-> d, ret |-> Raised("NotImplementedError")]}
  ELSE
    LET ts == Column(d, "Timestamp")
        nc == numeric_cols(d)
        all == UNION {interpolate(ts, Column(d, c)) : c \in nc}
        fills == {f \in [nc -> all] : \A c \in nc : f[c] \in interpolate(ts, Column(d, c))}
    IN  {[df |-> d,
          ret |-> [kind |-> "df",
                   val |-> [cols |-> d.cols,
                            rows |-> [i \in 1..Len(d.rows) |->
                                        [c \in d.cols |->
                                           IF c \in nc
                                           THEN ffill_bfill(f[c])[i]
                                           ELSE d.rows[i][c]]]]]] :
         f \in fills}

\* The days_after parameter: days_after=1 when the caller passes none.
NoDaysAfter == [none |-> TRUE]
DaysAfterOf(days_after) == IF days_after = NoDaysAfter THEN F(1) ELSE days_after

\* Series.fillna(0).astype(int) on a Cleaning cell: a missing value is 0,
\* and a float is truncated toward zero.
AsInt(x) == IF IsNaN(x) THEN F(0) ELSE F(Sign(x.v) * (Abs(x.v) \div Scale))

\* (t - last).total_seconds() / (3600*24), the model's timestamps being
\* whole hours; NaN when either is NaT.
DaysSince(t, last) ==
  IF t = NaT \/ last = NaT THEN NaN ELSE FDiv(F(t - last), F(HoursPerDay))

\* Series.between(left, right): left <= x <= right, False for NaN.
between(x, left, right) ==
  ~IsNaN(x) /\ ~FLt(x, left) /\ ~FGt(x, right)

\* add_post_clean_flag(df, days_after): [df, ret].  The function works on
\* a copy, whose Cleaning column it creates or rewrites.
add_post_clean_flag(d, days_after) ==
  IF "Timestamp" \notin d.cols THEN [df |-> d, ret |-> KeyError("Timestamp")]
  ELSE
    LET n == Len(d.rows)
        Cleaning == [i \in 1..n |->
                       IF "Cleaning" \in d.cols THEN AsInt(d.rows[i]["Cleaning"]) ELSE F(0)]
        clean_timestamp == [i \in 1..n |->
                              IF Cleaning[i] = F(1) THEN d.rows[i]["Timestamp"] ELSE NaT]
        last_clean == Ffill(clean_timestamp, [i \in 1..n |-> clean_timestamp[i] = NaT])
        days_since_clean == [i \in 1..n |-> DaysSince(d.rows[i]["Timestamp"], last_clean[i])]
        post_clean == [i \in 1..n |->
                         between(days_since_clean[i], F(0), DaysAfterOf(days_after))]
    IN  [df |-> d,
         ret |-> [kind |-> "df",
                  val |-> WithColumn(WithColumn(d, "Cleaning", Cleaning),
                                     "post_clean", post_clean)]]

\* Largest number of rows of a dataset given to the transformer.
MaxTRows == 3

\* The datasets of the transformer's checks: a timestamp (maybe missing), a
\* cleaning indicator or a reading (maybe missing) and a comment on every
\* other row; one dataset has no Timestamp column.
TStamps == {0, 24, 36, NaT}
TCleaning == {F(0), F(1), NaN}
TGhi == {F(1), NaN}
TComment(i) == IF i % 2 = 1 THEN Str("Good") ELSE None
DaysAfter == {NoDaysAfter, FQ(1, 2)}

InitTransform ==
  /\ file = NoData
  /\ \/ \E n \in 1..MaxTRows :
          \/ \E r \in [1..n -> [Timestamp : TStamps, Cleaning : TCleaning]] :
               df = [cols |-> {"Timestamp", "Cleaning", "Comments"},
                     rows |-> [i \in 1..n |->
                                 [Timestamp |-> r[i].Timestamp, Cleaning |-> r[i].Cleaning,
                                  Comments |-> TComment(i)]]]
          \/ \E r \in [1..n -> [Timestamp : TStamps, GHI : TGhi]] :
               df = [cols |-> {"Timestamp", "GHI"}, rows |-> r]
     \/ \E r \in [1..1 -> [GHI : TGhi, Cleaning : TCleaning]] :
          df = [cols |-> {"GHI", "Cleaning"}, rows |-> r]
  /\ op = NoOp
  /\ ret = NoRet
  /\ loc = NoLoc

\* filled = fill_interpolate(df)
FillInterpolate ==
  /\ op.name = "none"
  /\ \E r \in fill_interpolate(df) :
       /\ df' = r.df
       /\ ret' = r.ret
  /\ op' = [name |-> "fill_interpolate", given |-> df]
  /\ UNCHANGED <<file, loc>>

\* flagged = add_post_clean_flag(df, days_after)
AddPostCleanFlag ==
  /\ op.name = "none"
  /\ \E days_after \in DaysAfter :
       LET r == add_post_clean_flag(df, days_after)
       IN  /\ df' = r.df
           /\ ret' = r.ret
           /\ op' = [name |-> "add_post_clean_flag", given |-> df, days_after |-> days_after]
  /\ UNCHANGED <<file, loc>>

NextTransform == FillInterpolate \/ AddDailyAggregates \/ AddPostCleanFlag

SpecTransform == InitTransform /\ [][NextTransform]_vars

\* C14: each transformer operation (fill_interpolate, add_daily_aggregates,
\* add_post_clean_flag) leaves its input as it was: after the call, whether
\* it returned or failed with a missing-column error, the caller's dataset
\* has the columns and values it had before.
C14_InputKept ==
  op.name \in {"fill_interpolate", "add_daily_aggregates", "add_post_clean_flag"}
    => df = op.given

PostFlagged == op.name = "add_post_clean_flag" /\ ret.kind = "df"

\* The reading at position j of the dataset given has the cleaning
\* indicator set; a missing indicator and an absent column count as 0.
CleaningSet(j) ==
  /\ "Cleaning" \in op.given.cols
  /\ op.given.rows[j]["Cleaning"] = F(1)

\* The time from reading j to reading i is defined and lies in the closed
\* interval [0, days_after] days, in exact arithmetic on whole hours.
WithinDaysAfter(i, j) ==
  LET ti == op.given.rows[i]["Timestamp"]
      tj == op.given.rows[j]["Timestamp"]
  IN  /\ ti # NaT
      /\ tj # NaT
      /\ 0 <= ti - tj
      /\ (ti - tj) * Scale <= HoursPerDay * DaysAfterOf(op.days_after).v

C16_OnlyAdds ==
  PostFlagged =>
    /\ Len(ret.val.rows) = Len(op.given.rows)
    /\ ret.val.cols = op.given.cols \cup {"post_clean"}
    /\ \A c \in op.given.cols : Column(ret.val, c) = Column(op.given, c)

Filled == op.name = "fill_interpolate" /\ ret.kind = "df"

\* The dataset given to fill_interpolate can be indexed by time: it has a
\* Timestamp column without a missing timestamp.
Orderable ==
  /\ "Timestamp" \in op.given.cols
  /\ \A i \in 1..Len(op.given.rows) : op.given.rows[i]["Timestamp"] # NaT

\* The numeric columns of the dataset given (every column but the
\* timestamps and the comments), and the positions of the present values of
\* one.
NumericGiven == op.given.cols \ {"Timestamp", "Comments"}
PresentIn(c) == {i \in 1..Len(op.given.rows) : ~IsNaN(op.given.rows[i][c])}

\* C17: fill_interpolate returns normally on a dataset orderable by
\* timestamp, whether a numeric column has a present value or not; after
\* it a numeric column that had a present value has no missing value (the
\* gap before the first present value holds that value, and with strictly
\* increasing timestamps the gap after the last present value holds that
\* one), and a numeric column that was entirely missing is entirely missing.
C17_NoGapLeft ==
  (op.name = "fill_interpolate" /\ Orderable) =>
    /\ Filled
    /\ \A c \in NumericGiven :
         LET before == Column(op.given, c)
             after == Column(ret.val, c)
             present == PresentIn(c)
         IN  /\ present = {} => \A i \in 1..Len(after) : IsNaN(after[i])
             /\ present # {} =>
                  /\ \A i \in 1..Len(after) : IsFinite(after[i])
                  /\ \A i \in 1..Len(after) :
                       (\A j \in present : i < j)
                         => \E j \in present :
                              (\A k \in present : j <= k) /\ after[i] = before[j]
                  /\ (\A i \in 1..(Len(after) - 1) :
                        op.given.rows[i]["Timestamp"] < op.given.rows[i + 1]["Timestamp"])
                       => \A i \in 1..Len(after) :
                            (\A j \in present : j < i)
                              => \E j \in present :
                                   (\A k \in present : k <= j) /\ after[i] = before[j]

\* C17 witness: a column of three readings at increasing times whose first
\* is missing, filled; and nothing else in the dataset is missing.
C17_Witness ==
  /\ Filled
  /\ op.given.cols = {"Timestamp", "GHI"}
  /\ Len(op.given.rows) = 3
  /\ op.given.rows[1]["Timestamp"] < op.given.rows[2]["Timestamp"]
  /\ op.given.rows[2]["Timestamp"] < op.given.rows[3]["Timestamp"]
  /\ IsNaN(op.given.rows[1]["GHI"])
  /\ IsFinite(op.given.rows[2]["GHI"])
  /\ IsNaN(op.given.rows[3]["GHI"])
  /\ IsFinite(ret.val.rows[1]["GHI"])

\* C18: fill_interpolate changes only missing numeric cells: the columns
\* that are not numeric are as they were, every numeric value that was
\* present is unchanged, the rows keep their number and order, and on a
\* dataset without a missing value the output equals the input.
C18_OnlyMissingChange ==
  Filled =>
    /\ Len(ret.val.rows) = Len(op.given.rows)
    /\ ret.val.cols = op.given.cols
    /\ \A c \in op.given.cols \ NumericGiven : Column(ret.val, c) = Column(op.given, c)
    /\ \A c \in NumericGiven : \A i \in PresentIn(c) :
         ret.val.rows[i][c] = op.given.rows[i][c]
    /\ (\A c \in op.given.cols : \A i \in 1..Len(op.given.rows) :
          ~isnull(c, op.given.rows[i][c]))
         => ret.val = op.given

\* C18 witness: a dataset with a missing comment and a reading missing
\* between two different present readings, which is the only cell changed.
C18_Witness ==
  /\ Filled
  /\ "Comments" \in op.given.cols
  /\ Len(op.given.rows) = 3
  /\ IsNaN(op.given.rows[2]["Cleaning"])
  /\ IsFinite(ret.val.rows[2]["Cleaning"])
  /\ ret.val.rows[2]["Cleaning"] # ret.val.rows[1]["Cleaning"]
  /\ ret.val.rows[2]["Cleaning"] # ret.val.rows[3]["Cleaning"]
  /\ ret.val.rows[2]["Comments"] = None

\* C26: missing values, duplicate rows and missing timestamps in a dataset
\* that has the columns an operation requires never make the operation
\* fail: fill_interpolate, add_post_clean_flag and add_daily_aggregates
\* each return a dataset.
C26_NeverFatal ==
  /\ (op.name \in {"fill_interpolate", "add_post_clean_flag"}
        /\ "Timestamp" \in op.given.cols)
       => ret.kind = "df"
  /\ (op.name = "add_daily_aggregates"
        /\ AggCols \cup {"Timestamp"} \subseteq op.given.cols)
       => ret.kind = "df"

(***************************************************************************)
(* scripts/data_load.py: load_country_files                                *)
(***************************************************************************)
\* The file system maps a path to the table read_csv parses from the file
\* there, or to NoFile when no file is there.  Datasets are objects: the
\* heap is the sequence of the datasets created so far, and a reference to
\* a dataset is its position in the heap.
NoFile == [exists |-> FALSE]

\* pd.read_csv(path) on a path without a file.
FileNotFoundError(path) == [kind |-> "FileNotFoundError", path |-> path]

\* file_map is the sequence of the items [country, path] of the dict, in
\* insertion order; its keys are distinct.
Keys(file_map) == {file_map[i].country : i \in 1..Len(file_map)}
ItemOf(file_map, country) ==
  CHOOSE i \in 1..Len(file_map) : file_map[i].country = country

RECURSIVE LoadItems(_, _, _)
\* The tables load_csv(path) may return for the items of file_map from
\* position i on, one per item, in item order.
LoadItems(fs, file_map, i) ==
  IF i > Len(file_map) THEN {<<>>}
  ELSE {<<d>> \o rest : d \in load_csv(fs[file_map[i].path], TRUE),
                        rest \in LoadItems(fs, file_map, i + 1)}

\* Mutant: an item whose file is missing is left out of the result.
load_country_files_partial(fs, file_map, heap) ==
  LET found == SelectSeq(file_map, LAMBDA item : fs[item.path] # NoFile)
  IN  {[heap |-> heap \o tables,
        ret |-> [kind |-> "dict",
                 val |-> [c \in Keys(found) |-> Len(heap) + ItemOf(found, c)]]] :
         tables \in LoadItems(fs, found, 1)}

\* Mutant: a path is read once, and the labels that name it share the
\* dataset.
load_country_files_cached(fs, file_map, heap) ==
  LET missing == {i \in 1..Len(file_map) : fs[file_map[i].path] = NoFile}
      FirstOf(i) == CHOOSE j \in 1..i :
                      /\ file_map[j].path = file_map[i].path
                      /\ \A k \in 1..(j - 1) : file_map[k].path # file_map[i].path
  IN  IF missing # {}
      THEN {[heap |-> heap,
             ret |-> FileNotFoundError(
                       file_map[CHOOSE i \in missing : \A j \in missing : i <= j].path)]}
      ELSE {[heap |-> heap \o tables,
             ret |-> [kind |-> "dict",
                      val |-> [c \in Keys(file_map) |->
                                 Len(heap) + FirstOf(ItemOf(file_map, c))]]] :
              tables \in LoadItems(fs, file_map, 1)}

\* load_country_files(file_map): the possible outcomes [heap, ret].  The
\* comprehension calls load_csv(path) for the items in order, every call
\* creating a dataset of its own; the first missing file raises out of the
\* comprehension and no dict is built.
load_country_files(fs, file_map, heap) ==
  LET missing == {i \in 1..Len(file_map) : fs[file_map[i].path] = NoFile}
  IN  IF missing # {}
      THEN {[heap |-> heap,
             ret |-> FileNotFoundError(
                       file_map[CHOOSE i \in missing : \A j \in missing : i <= j].path)]}
      ELSE {[heap |-> heap \o tables,
             ret |-> [kind |-> "dict",
                      val |-> [c \in Keys(file_map) |-> Len(heap) + ItemOf(file_map, c)]]] :
              tables \in LoadItems(fs, file_map, 1)}

(***************************************************************************)
(* Several countries: loading and the per-country pipelines.               *)
(***************************************************************************)
Countries == {"Benin", "Togo"}
Paths == {"data/raw/benin.csv", "data/raw/togo.csv"}

LowReadings == [c \in AggCols |-> F(ColIndex(c))]
HighReadings == [c \in AggCols |-> IF c = "Tamb" THEN F(-5) ELSE F(2 * ColIndex(c) + 1)]

CountryCols == AggCols \cup {"Timestamp", "Cleaning"}

\* A row of a country's CSV file: its timestamp written for hour h, the
\* readings m and the cleaning indicator.
CountryRow(h, m, cleaning) ==
  [c \in CountryCols |->
     IF c = "Timestamp" THEN [form |-> TimestampFormat, hour |-> h]
     ELSE IF c = "Cleaning" THEN cleaning
     ELSE m[c]]

\* The files of the checks: a single reading, and two readings of the same
\* minute, one of them a cleaning event.
CountryTables ==
  {[cols |-> CountryCols, rows |-> <<CountryRow(25, HighReadings, F(0))>>],
   [cols |-> CountryCols,
    rows |-> <<CountryRow(1, LowReadings, F(0)), CountryRow(1, HighReadings, F(1))>>]}

\* The file maps of the checks: none, one or both countries, also with
\* both countries read from one path.
FileMaps ==
  {<<>>} \cup {<<[country |-> "Benin", path |-> p]>> : p \in Paths}
    \cup {<<[country |-> "Benin", path |-> p], [country |-> "Togo", path |-> q]>> :
            p \in Paths, q \in Paths}

\* Here file is the file system, df the heap, and loc the caller's
\* variables once load_country_files has returned: data, the number pc of
\* pipeline steps each country has taken, the daily table aggregated for
\* each country (NoData before), and alone, the dataset each country has
\* when its pipeline runs on a loaded copy of its own.
InitCountries ==
  /\ file \in [Paths -> CountryTables \cup {NoFile}]
  /\ file["data/raw/benin.csv"] # NoFile
  /\ df = <<>>
  /\ op = NoOp
  /\ ret = NoRet
  /\ loc = NoLoc

\* data = load_country_files(file_map)
LoadCountryFiles ==
  /\ op.name = "none"
  /\ \E file_map \in FileMaps : \E r \in load_country_files(file, file_map, df) :
       /\ op' = [name |-> "load_country_files", file_map |-> file_map]
       /\ df' = r.heap
       /\ ret' = r.ret
       /\ loc' = IF r.ret.kind = "dict"
                 THEN [fn |-> "caller", data |-> r.ret.val,
                       pc |-> [c \in DOMAIN r.ret.val |-> 0],
                       daily |-> [c \in DOMAIN r.ret.val |-> NoData],
                       alone |-> [c \in DOMAIN r.ret.val |-> r.heap[r.ret.val[c]]]]
                 ELSE loc
  /\ UNCHANGED file

\* Step k of the pipeline of country c, the operation name, has run on
\* data[c]: r is its outcome [df, ret] there and solo its outcomes on the
\* country's own copy, of which own is the one taken.  The steps of one
\* country follow one another; those of different countries interleave.
Ran(name, k, c, r, solo, own) ==
  /\ loc.pc[c] = k - 1
  /\ df' = [df EXCEPT ![loc.data[c]] = r.df]
  /\ ret' = r.ret
  /\ op' = [name |-> name, country |-> c, expected |-> {s.ret : s \in solo}]
  /\ loc' = [loc EXCEPT !.pc[c] = k,
                        !.alone[c] = own.df,
                        !.daily[c] = IF name = "add_daily_aggregates" /\ r.ret.kind = "df"
                                     THEN r.ret.val ELSE @]
  /\ UNCHANGED file

PipelineCountries == IF loc = NoLoc THEN {} ELSE DOMAIN loc.data

\* The dataset of a run of a pipeline step of country c: data[c] in the
\* heap, or the dataset the country has alone.
Dataset(c, w) == IF w = "heap" THEN df[loc.data[c]] ELSE loc.alone[c]

\* basic_quality_report(data[c])
ReportCountry(c) ==
  \E run \in {[w \in {"heap", "alone"} |-> basic_quality_report(Dataset(c, w))]} :
    Ran("basic_quality_report", 1, c, run["heap"], {run["alone"]}, run["alone"])

\* flag_outliers_z(data[c], 'GHI')
FlagCountry(c) ==
  \E run \in {[w \in {"heap", "alone"} |->
                 flag_outliers_z(Dataset(c, w), "GHI", NoThreshold)]} :
    Ran("flag_outliers_z", 2, c, run["heap"], {run["alone"]}, run["alone"])

\* daily[c] = add_daily_aggregates(data[c])
AggregateCountry(c) ==
  \E run \in {[w \in {"heap", "alone"} |-> add_daily_aggregates(Dataset(c, w))]} :
    Ran("add_daily_aggregates", 3, c, run["heap"], {run["alone"]}, run["alone"])

\* add_post_clean_flag(data[c])
PostCleanCountry(c) ==
  \E run \in {[w \in {"heap", "alone"} |->
                 add_post_clean_flag(Dataset(c, w), NoDaysAfter)]} :
    Ran("add_post_clean_flag", 4, c, run["heap"], {run["alone"]}, run["alone"])

\* cleaning_impact_test(data[c]), which works on a sorted copy
CleaningImpactCountry(c) ==
  \E run \in {[w \in {"heap", "alone"} |->
                 cleaning_impact_test(Dataset(c, w), "ModA", 24, 24)]} :
    \E x \in run["heap"] :
      Ran("cleaning_impact_test", 5, c, [df |-> Dataset(c, "heap"), ret |-> x.ret],
          run["alone"], [df |-> Dataset(c, "alone")])

\* country_score(daily[c]), which reads the daily table only
ScoreCountry(c) ==
  /\ loc.daily[c] # NoData
  /\ \E scored \in {[df |-> Dataset(c, "heap"),
                     ret |-> country_score(loc.daily[c], NoWeights)]} :
       Ran("country_score", 6, c, scored, {scored}, [df |-> Dataset(c, "alone")])

NextCountries ==
  \/ LoadCountryFiles
  \/ \E c \in PipelineCountries :
       \/ ReportCountry(c)
       \/ FlagCountry(c)
       \/ AggregateCountry(c)
       \/ PostCleanCountry(c)
       \/ CleaningImpactCountry(c)
       \/ ScoreCountry(c)

SpecCountries == InitCountries /\ [][NextCountries]_vars

CountriesLoaded == op.name = "load_country_files"

\* C21: load_country_files returns a mapping whose keys are exactly the
\* country labels of the mapping given, each mapped to the dataset load_csv
\* loads from its path; when any one of the files is missing the call fails
\* with FileNotFoundError and the caller gets no partial result; the empty
\* mapping gives the empty result and no error.
C21_AllOrNothing ==
  CountriesLoaded =>
    LET file_map == op.file_map
        missing == \E i \in 1..Len(file_map) : file[file_map[i].path] = NoFile
    IN  /\ missing => ret.kind = "FileNotFoundError" /\ loc = NoLoc /\ df = <<>>
        /\ ~missing =>
             /\ ret.kind = "dict"
             /\ DOMAIN ret.val = {file_map[i].country : i \in 1..Len(file_map)}
             /\ \A i \in 1..Len(file_map) :
                  df[ret.val[file_map[i].country]]
                    \in load_csv(file[file_map[i].path], TRUE)
             /\ loc.data = ret.val
        /\ file_map = <<>> => ret.kind = "dict" /\ DOMAIN ret.val = {}

\* C21 witness: of two countries' files the second is missing, and the call
\* failed although the first could be loaded.
C21_Witness ==
  /\ CountriesLoaded
  /\ Len(op.file_map) = 2
  /\ file[op.file_map[1].path] # NoFile
  /\ file[op.file_map[2].path] = NoFile
  /\ ret.kind = "FileNotFoundError"
  /\ loc = NoLoc

(***************************************************************************)
(* scripts/scoring.py: the scores of two daily tables compared.            *)
(***************************************************************************)
\* The daily values of the comparison: two that differ in the last place,
\* and one a hundred times larger.
ScoreVals == {F(1), FQ(65, 64), F(100)}

\* The daily tables scored: the four columns, and one row.
ScoreTables ==
  {[cols |-> {"GHI", "DNI", "DHI", "Tamb"}, rows |-> <<r>>] :
     r \in [{"GHI", "DNI", "DHI", "Tamb"} -> ScoreVals]}

\* The weights of the comparison: the defaults, the custom weights of the
\* scorer's test, and weights that leave the GHI mean out.
ScoreWeights ==
  {NoWeights,
   [GHI |-> FQ(5, 10), DNI |-> FQ(3, 10), DHI |-> FQ(1, 10), Tamb |-> FQ(1, 10)],
   [GHI |-> F(0), DNI |-> FQ(5, 10), DHI |-> FQ(1, 10), Tamb |-> FQ(4, 10)]}

InitScore ==
  /\ file = NoData
  /\ df \in ScoreTables
  /\ op = NoOp
  /\ ret = NoRet
  /\ loc = NoLoc

\* low_result = country_score(low_df, weights)
CountryScoreOf ==
  /\ op.name = "none"
  /\ \E w \in ScoreWeights :
       /\ op' = [name |-> "country_score", given |-> df, weights |-> w, calls |-> 1]
       /\ ret' = country_score(df, w)
  /\ UNCHANGED <<file, df, loc>>

\* high_result = country_score(high_df, weights), with the same weights
CountryScoreAgain ==
  /\ op.name = "country_score"
  /\ op.calls = 1
  /\ \E d \in ScoreTables :
       /\ df' = d
       /\ op' = [name |-> "country_score", given |-> d, weights |-> op.weights,
                 calls |-> 2, earlier |-> ret]
       /\ ret' = country_score(d, op.weights)
  /\ UNCHANGED <<file, loc>>

NextScore == CountryScoreOf \/ CountryScoreAgain

SpecScore == InitScore /\ [][NextScore]_vars

ScoredTwice == op.name = "country_score" /\ op.calls = 2

\* The later table has a greater mean of column c than the earlier one and
\* the same three other means.
OnlyGreater(c) ==
  /\ FGt(ret.agg[c], op.earlier.agg[c])
  /\ \A x \in {"avg_GHI", "avg_DNI", "avg_DHI", "avg_Tamb"} \ {c} :
       ret.agg[x] = op.earlier.agg[x]

\* C23 (as stated): with the other three means held fixed, the score is
\* strictly increasing in the GHI mean and in the DNI mean and strictly
\* decreasing in the Tamb mean, for the weights the scorer is called with.
C23_Original ==
  ScoredTwice =>
    /\ OnlyGreater("avg_GHI") => FGt(ret.score, op.earlier.score)
    /\ OnlyGreater("avg_DNI") => FGt(ret.score, op.earlier.score)
    /\ OnlyGreater("avg_Tamb") => FLt(ret.score, op.earlier.score)

\* C23 (amended): with weights that are not negative and the other three
\* means held fixed, a greater GHI mean or DNI mean never gives a smaller
\* score, and a greater Tamb mean never gives a greater score.
C23_Monotone ==
  ScoredTwice =>
    LET w == IF op.weights = NoWeights THEN DefaultWeights ELSE op.weights
        NotBelow == FGt(ret.score, op.earlier.score) \/ ret.score = op.earlier.score
        NotAbove == FLt(ret.score, op.earlier.score) \/ ret.score = op.earlier.score
    IN  /\ (OnlyGreater("avg_GHI") /\ ~FLt(w.GHI, F(0))) => NotBelow
        /\ (OnlyGreater("avg_DNI") /\ ~FLt(w.DNI, F(0))) => NotBelow
        /\ (OnlyGreater("avg_Tamb") /\ ~FLt(w.Tamb, F(0))) => NotAbove

\* C23 witness: with the default weights a table with a greater GHI mean
\* and the same other means got the same score, the difference being lost
\* in the rounding of the sum.
C23_Witness ==
  /\ ScoredTwice
  /\ op.weights = NoWeights
  /\ OnlyGreater("avg_GHI")
  /\ ret.score = op.earlier.score
  /\ IsFinite(ret.score)

\* C28: the datasets of different countries share no mutable state.  The
\* datasets load_country_files returns are separate objects, also for two
\* labels with one path; at every point of every interleaving of the
\* countries' pipelines each country's dataset is the one its pipeline
\* alone gives, and the result of every operation is a result the
\* operation has there; and a step of one country's pipeline leaves the
\* dataset of every other country as it was.
C28_Isolated ==
  /\ [](loc # NoLoc =>
          /\ \A a \in DOMAIN loc.data : \A b \in DOMAIN loc.data :
               a # b => loc.data[a] # loc.data[b]
          /\ \A c \in DOMAIN loc.data : df[loc.data[c]] = loc.alone[c]
          /\ op.name # "load_country_files" => ret \in op.expected)
  /\ [][loc # NoLoc =>
          \A c \in DOMAIN loc.data :
            c # op'.country => df'[loc.data[c]] = df[loc.data[c]]]_vars

\* C28 witness: both labels were loaded from one path; Benin's pipeline
\* has run to its end and its dataset has the outlier and date columns;
\* Togo's dataset had neither when its outliers were flagged just now, and
\* still has no date column.
C28_Witness ==
  /\ loc # NoLoc
  /\ DOMAIN loc.data = {"Benin", "Togo"}
  /\ file["data/raw/togo.csv"] = NoFile
  /\ loc.pc["Benin"] = 6
  /\ "GHI_outlier" \in df[loc.data["Benin"]].cols
  /\ "date" \in df[loc.data["Benin"]].cols
  /\ op.name = "flag_outliers_z"
  /\ op.country = "Togo"
  /\ "GHI_outlier" \in df[loc.data["Togo"]].cols
  /\ "date" \notin df[loc.data["Togo"]].cols

(***************************************************************************)
(* app/utils.py: the wrappers the dashboard calls.                         *)
(***************************************************************************)
\* Mutant: the aggregation is given the dataset itself, not the flagged
\* copy.
daily_agg_for_country_inplace(d) == add_daily_aggregates(d)

\* daily_agg_for_country(df): [df, ret].  The aggregation gets the copy
\* add_post_clean_flag returns, and writes its 'date' column there.
daily_agg_for_country(d) ==
  LET df2 == add_post_clean_flag(d, NoDaysAfter)
  IN  IF df2.ret.kind # "df" THEN [df |-> df2.df, ret |-> df2.ret]
      ELSE [df |-> df2.df, ret |-> add_daily_aggregates(df2.ret.val).ret]

\* cleaning_impact_report(df, metric): the possible outcomes [df, ret];
\* None without a Cleaning or a metric column.
cleaning_impact_report(d, metric) ==
  IF "Cleaning" \notin d.cols \/ metric \notin d.cols
  THEN {[df |-> d, ret |-> [kind |-> "None"]]}
  ELSE {[df |-> d, ret |-> x.ret] : x \in cleaning_impact_test(d, metric, 24, 24)}

key_cols == {"GHI", "DNI", "DHI", "ModA", "ModB", "WS", "WSgust", "Tamb"}

\* round(100 * outlier_count / total, 2), in hundredths of a percent, ties
\* to even; NaN for a dataset without rows.
OutlierPct(outlier_count, total) ==
  IF total = 0 THEN NaN
  ELSE LET num == 10000 * outlier_count
           q == num \div total
           r == num - q * total
       IN  [c |-> "fin",
            hundredths |-> IF 2 * r > total \/ (2 * r = total /\ q % 2 = 1)
                           THEN q + 1 ELSE q]

\* create_zscore_analysis(df): [df, ret].  Every column is flagged on a
\* copy of its own, df.copy().
create_zscore_analysis(d) ==
  [df |-> d,
   ret |-> [kind |-> "dict",
            val |-> [col \in key_cols \cap d.cols |->
                       LET df_z == flag_outliers_z(d, col, F(3)).df
                           outlier_count == CountTrue(Column(df_z, OutlierName(col)))
                       IN  [outlier_count |-> outlier_count,
                            outlier_percentage |-> OutlierPct(outlier_count, Len(df_z.rows)),
                            total_records |-> Len(df_z.rows)]]]]

\* The datasets of the dashboard: the loaded files of the countries, also
\* with a missing GHI reading or a missing timestamp in the first row, or
\* without one of their columns.
DashTables ==
  LET loaded == UNION {load_csv(t, TRUE) : t \in CountryTables}
      holed == loaded
                 \cup {[t EXCEPT !.rows[1]["GHI"] = NaN] : t \in loaded}
                 \cup {[t EXCEPT !.rows[1]["Timestamp"] = NaT] : t \in loaded}
  IN  holed \cup {DropColumn(t, c) : t \in holed, c \in {"Cleaning", "ModA", "BP", "Timestamp"}}

\* Here loc keeps the dataset as it was before the first call.
InitDash ==
  /\ file = NoData
  /\ df \in DashTables
  /\ op = NoOp
  /\ ret = NoRet
  /\ loc = [fn |-> "dashboard", given |-> df]

\* A wrapper has returned or raised: r is its outcome [df, ret].
Called(name, r) ==
  /\ op.calls < MaxCalls
  /\ df' = r.df
  /\ ret' = r.ret
  /\ op' = [name |-> name, calls |-> op.calls + 1, previous |-> op.name]
  /\ UNCHANGED <<file, loc>>

\* daily = daily_agg_for_country(df)
DailyAggForCountry == Called("daily_agg_for_country", daily_agg_for_country(df))

\* outliers = create_zscore_analysis(df)
CreateZscoreAnalysis == Called("create_zscore_analysis", create_zscore_analysis(df))

\* impact = cleaning_impact_report(df)
CleaningImpactReport ==
  \E r \in cleaning_impact_report(df, "ModA") : Called("cleaning_impact_report", r)

NextDash == DailyAggForCountry \/ CreateZscoreAnalysis \/ CleaningImpactReport

SpecDash == InitDash /\ [][NextDash]_vars

\* C29: the wrappers leave the dataset they are given unchanged: after any
\* sequence of calls of daily_agg_for_country, create_zscore_analysis and
\* cleaning_impact_report the dataset has the columns and values it had
\* before the first call, and what a call returns or raises is what the
\* wrapper gives on that dataset, whichever calls went before.
C29_WrappersReadOnly ==
  /\ df = loc.given
  /\ op.name = "daily_agg_for_country" => ret = daily_agg_for_country(loc.given).ret
  /\ op.name = "create_zscore_analysis" => ret = create_zscore_analysis(loc.given).ret
  /\ op.name = "cleaning_impact_report"
       => ret \in {r.ret : r \in cleaning_impact_report(loc.given, "ModA")}

\* C29 witness: the daily aggregates were computed and then the cleaning
\* impact was reported, on a dataset that has a cleaning event and all the
\* columns the aggregation reads.
C29_Witness ==
  /\ op.name = "cleaning_impact_report"
  /\ op.previous = "daily_agg_for_country"
  /\ AggCols \cup {"Timestamp", "Cleaning"} \subseteq df.cols
  /\ ret.kind = "dict"
  /\ \E i \in 1..Len(df.rows) : df.rows[i]["Cleaning"] = F(1)

(***************************************************************************)
(* scripts/stats.py: cleaning_impact_test on a dataset and on its rows in  *)
(* another order.                                                          *)
(***************************************************************************)
\* A row of the datasets compared.
OrderRow(t, cleaning, metric) == [Timestamp |-> t, Cleaning |-> cleaning, ModA |-> metric]

\* The datasets compared, as load_csv returns them: three readings of one
\* minute, two cleaning events in the hours after it and a last reading.
\* The three readings are whole numbers, or one larger and two smaller
\* ones whose sum depends on the order of the additions (as that of 0.1,
\* 0.2 and 0.3 does in float64).
OrderTables ==
  {[cols |-> CleanCols,
    rows |-> <<OrderRow(0, F(0), m[1]), OrderRow(0, F(0), m[2]), OrderRow(0, F(0), m[3]),
               OrderRow(1, F(1), F(1)), OrderRow(2, F(1), F(1)), OrderRow(3, F(0), F(2))>>] :
     m \in {<<F(1), F(2), F(3)>>, <<FQ(81, 16), FQ(1, 64), FQ(1, 64)>>}}

\* The orders the rows of a dataset of n rows can be given in.
RowOrders(n) == {p \in [1..n -> 1..n] : \A i \in 1..n : \E j \in 1..n : p[j] = i}

InitOrder ==
  /\ file = NoData
  /\ df \in OrderTables
  /\ op = NoOp
  /\ ret = NoRet
  /\ loc = NoLoc

\* result = cleaning_impact_test(df)
CleaningImpactGiven ==
  /\ op.name = "none"
  /\ \E r \in cleaning_impact_test(df, "ModA", 24, 24) :
       /\ op' = [name |-> "cleaning_impact_test", given |-> df, calls |-> 1]
       /\ ret' = r.ret
       /\ loc' = r.loc
  /\ UNCHANGED <<file, df>>

\* shuffled = cleaning_impact_test(df.iloc[p]), the same rows in the order p
CleaningImpactShuffled ==
  /\ op.name = "cleaning_impact_test"
  /\ op.calls = 1
  /\ \E p \in RowOrders(Len(df.rows)) :
       \E r \in cleaning_impact_test(Take(df, p), "ModA", 24, 24) :
         /\ df' = Take(df, p)
         /\ op' = [name |-> "cleaning_impact_test", given |-> Take(df, p), calls |-> 2,
                   earlier |-> ret]
         /\ ret' = r.ret
         /\ loc' = r.loc
  /\ UNCHANGED file

NextOrder == CleaningImpactGiven \/ CleaningImpactShuffled

SpecOrder == InitOrder /\ [][NextOrder]_vars

\* C30: the result of cleaning_impact_test does not depend on the order of
\* the rows given: on the same rows in another order n_events is the same,
\* the insufficient-data message is there or not as before, and mean_pre,
\* mean_post and mean_diff are the same numbers.
C30_OrderIndependent ==
  (op.name = "cleaning_impact_test" /\ op.calls = 2) =>
    /\ ret.n_events = op.earlier.n_events
    /\ ("message" \in DOMAIN ret) = ("message" \in DOMAIN op.earlier)
    /\ "message" \notin DOMAIN ret =>
         /\ ret.mean_pre = op.earlier.mean_pre
         /\ ret.mean_post = op.earlier.mean_post
         /\ ret.mean_diff = op.earlier.mean_diff

====
